---- MODULE Spec2Model ----
(***************************************************************************)
(* ytm: versioned backup of YouTube playlists into a DuckLake store.       *)
(*                                                                         *)
(* The store is the DuckLake catalog: a list of snapshots ("versions"),    *)
(* each holding the three tables playlists / videos / playlist_items.      *)
(* `conn` is what an un-versioned SELECT on the process's connection sees. *)
(* One backup process at a time walks through backup(): it fetches the     *)
(* playlist list, opens a transaction, syncs each playlist, optionally     *)
(* Watch Later, and commits; an exception escaping the loop rolls back.    *)
(***************************************************************************)
EXTENDS Integers, Sequences, FiniteSets, TLC

\* ------------------------------------------------------------------ bounds
\* Processes started (each reads the clock once more) in Spec and SpecWL, and
\* in SpecLong, which follows one membership through more runs.
MaxClock == 2
MaxClockLong == 3

PlaylistIds == {"PL1", "PL2"}
ItemIds == {"i1", "i2"}
VideoIds == {"v1"}
Titles == {"t"}
VideoTitles == {"video", "Private video"}
MaxItems == 2
MaxDurationLen == 3
OlderNow == 2
TicksPerDay == 2
Days == {0, 1}
UtcOffsets == {0, 1}
BatchSizes == {1, 2}
RemoteVideoIds == {"v1", "v2"}

\* ------------------------------------------------------- program constants
WATCH_LATER_PLAYLIST_ID == "WL"

\* SQL NULL / Python None: "NULL" in a VARCHAR column, NoValue in an INTEGER
\* or TIMESTAMP column and for an omitted at_version / at_time argument.
NULL == "NULL"
NoValue == 0 - 1

\* A BOOLEAN column holds "true", "false" or NULL.
SqlBool(b) == IF b THEN "true" ELSE "false"

\* The result of a read: the rows returned, or the error the engine raises when
\* the version or the table does not exist.
Rows(R) == [ok |-> TRUE, rows |-> R]

ERROR == [ok |-> FALSE, rows |-> {}]

\* ------------------------------------------------------------ small helpers
Range(s) == {s[i] : i \in 1..Len(s)}

Last(s) == s[Len(s)]

\* Sequences without repetition over S, of length at most n.
DistinctSeqs(S, n) ==
    UNION {{s \in [1..k -> S] : \A i, j \in 1..k : i # j => s[i] # s[j]} : k \in 0..n}

EmptyTables == [playlists |-> {}, videos |-> {}, playlist_items |-> {}]

\* ------------------------------------------------------------------ models
\* Playlist.from_api_response: the fields of the API resource; a missing
\* description becomes "", a missing itemCount becomes 0.
Playlist_from_api_response(raw) ==
    [playlist_id |-> raw.id,
     title |-> raw.title,
     description |-> "",
     channel_id |-> NULL,
     privacy_status |-> NULL,
     item_count |-> raw.itemCount,
     published_at |-> NoValue]

\* Video.from_api_response: the API never reports a duration; a video titled
\* "Private video" or "Deleted video" is unavailable.
Video_from_api_response(raw) ==
    [video_id |-> raw.videoId,
     title |-> raw.title,
     description |-> NULL,
     channel_id |-> NULL,
     channel_title |-> NULL,
     duration_seconds |-> NoValue,
     thumbnail_url |-> NULL,
     published_at |-> NoValue,
     is_available |-> SqlBool(raw.title # "Private video" /\ raw.title # "Deleted video")]

\* PlaylistItem.from_api_response: the id is the remote playlistItem id.
PlaylistItem_from_api_response(raw, playlist_id) ==
    [item_id |-> raw.id,
     playlist_id |-> playlist_id,
     video_id |-> raw.videoId,
     position |-> raw.position,
     added_at |-> raw.publishedAt]

\* Video.from_ytdlp_entry
Video_from_ytdlp_entry(entry) ==
    [video_id |-> entry.id,
     title |-> entry.title,
     description |-> NULL,
     channel_id |-> NULL,
     channel_title |-> NULL,
     duration_seconds |-> entry.duration,
     thumbnail_url |-> NULL,
     published_at |-> NoValue,
     is_available |-> SqlBool(entry.title \notin {"[Private video]", "[Deleted video]"})]

\* PlaylistItem.from_ytdlp_entry: item_id = f"{playlist_id}_{video_id}",
\* added_at is unknown.
PlaylistItem_from_ytdlp_entry(entry, playlist_id, position) ==
    [item_id |-> playlist_id \o "_" \o entry.id,
     playlist_id |-> playlist_id,
     video_id |-> entry.id,
     position |-> position,
     added_at |-> NoValue]

\* ---------------------------------------------------------------- database
\* upsert_playlist: SELECT by playlist_id; UPDATE every scalar field, set
\* last_seen_at and clear deleted_from_youtube_at; otherwise INSERT.
upsert_playlist(T, playlist, now) ==
    IF \E r \in T : r.playlist_id = playlist.playlist_id
    THEN {IF r.playlist_id = playlist.playlist_id
          THEN [r EXCEPT !.title = playlist.title,
                         !.description = playlist.description,
                         !.channel_id = playlist.channel_id,
                         !.privacy_status = playlist.privacy_status,
                         !.item_count = playlist.item_count,
                         !.published_at = playlist.published_at,
                         !.last_seen_at = now,
                         !.deleted_from_youtube_at = NoValue]
          ELSE r : r \in T}
    ELSE T \cup {[playlist_id |-> playlist.playlist_id,
                  title |-> playlist.title,
                  description |-> playlist.description,
                  channel_id |-> playlist.channel_id,
                  privacy_status |-> playlist.privacy_status,
                  item_count |-> playlist.item_count,
                  published_at |-> playlist.published_at,
                  first_seen_at |-> now,
                  last_seen_at |-> now,
                  deleted_from_youtube_at |-> NoValue]}

\* COALESCE(new, old) of SQL, for VARCHAR and for INTEGER/TIMESTAMP columns.
COALESCE_S(new, old) == IF new # NULL THEN new ELSE old

COALESCE_I(new, old) == IF new # NoValue THEN new ELSE old

\* The row upsert_video inserts.
VideoRow(video, now) ==
    [video_id |-> video.video_id,
     title |-> video.title,
     description |-> video.description,
     channel_id |-> video.channel_id,
     channel_title |-> video.channel_title,
     duration_seconds |-> video.duration_seconds,
     thumbnail_url |-> video.thumbnail_url,
     published_at |-> video.published_at,
     first_seen_at |-> now,
     last_updated_at |-> now,
     is_available |-> video.is_available]

\* An UPDATE without "is_available = ?".
upsert_video_keeps_availability(T, video, now) ==
    IF \E r \in T : r.video_id = video.video_id
    THEN {IF r.video_id = video.video_id
          THEN [r EXCEPT !.title = COALESCE_S(video.title, @),
                         !.description = COALESCE_S(video.description, @),
                         !.channel_id = COALESCE_S(video.channel_id, @),
                         !.channel_title = COALESCE_S(video.channel_title, @),
                         !.duration_seconds = COALESCE_I(video.duration_seconds, @),
                         !.thumbnail_url = COALESCE_S(video.thumbnail_url, @),
                         !.published_at = COALESCE_I(video.published_at, @),
                         !.last_updated_at = now]
          ELSE r : r \in T}
    ELSE T \cup {VideoRow(video, now)}

\* An UPDATE that sets "title = ?" (and so on) without COALESCE.
upsert_video_overwrites(T, video, now) ==
    IF \E r \in T : r.video_id = video.video_id
    THEN {IF r.video_id = video.video_id
          THEN [VideoRow(video, now) EXCEPT !.first_seen_at = r.first_seen_at]
          ELSE r : r \in T}
    ELSE T \cup {VideoRow(video, now)}

\* upsert_video: SELECT by video_id; UPDATE merges each optional field with
\* COALESCE, sets last_updated_at and is_available; otherwise INSERT.
upsert_video(T, video, now) ==
    IF \E r \in T : r.video_id = video.video_id
    THEN {IF r.video_id = video.video_id
          THEN [r EXCEPT !.title = COALESCE_S(video.title, @),
                         !.description = COALESCE_S(video.description, @),
                         !.channel_id = COALESCE_S(video.channel_id, @),
                         !.channel_title = COALESCE_S(video.channel_title, @),
                         !.duration_seconds = COALESCE_I(video.duration_seconds, @),
                         !.thumbnail_url = COALESCE_S(video.thumbnail_url, @),
                         !.published_at = COALESCE_I(video.published_at, @),
                         !.last_updated_at = now,
                         !.is_available = video.is_available]
          ELSE r : r \in T}
    ELSE T \cup {VideoRow(video, now)}

\* An upsert without the SELECT: every observation is inserted.
upsert_playlist_item_always_inserts(T, item, now) ==
    T \cup {[item_id |-> item.item_id,
             playlist_id |-> item.playlist_id,
             video_id |-> item.video_id,
             position |-> item.position,
             added_at |-> item.added_at,
             first_seen_at |-> now,
             last_seen_at |-> now,
             removed_from_youtube_at |-> NoValue]}

\* An UPDATE that leaves last_seen_at out.
upsert_playlist_item_keeps_last_seen(T, item, now) ==
    IF \E r \in T : r.item_id = item.item_id
    THEN {IF r.item_id = item.item_id
          THEN [r EXCEPT !.position = item.position,
                         !.removed_from_youtube_at = NoValue]
          ELSE r : r \in T}
    ELSE T \cup {[item_id |-> item.item_id,
                  playlist_id |-> item.playlist_id,
                  video_id |-> item.video_id,
                  position |-> item.position,
                  added_at |-> item.added_at,
                  first_seen_at |-> now,
                  last_seen_at |-> now,
                  removed_from_youtube_at |-> NoValue]}

\* upsert_playlist_item: SELECT by item_id; UPDATE sets only position and
\* last_seen_at and clears removed_from_youtube_at; otherwise INSERT.
upsert_playlist_item(T, item, now) ==
    IF \E r \in T : r.item_id = item.item_id
    THEN {IF r.item_id = item.item_id
          THEN [r EXCEPT !.position = item.position,
                         !.last_seen_at = now,
                         !.removed_from_youtube_at = NoValue]
          ELSE r : r \in T}
    ELSE T \cup {[item_id |-> item.item_id,
                  playlist_id |-> item.playlist_id,
                  video_id |-> item.video_id,
                  position |-> item.position,
                  added_at |-> item.added_at,
                  first_seen_at |-> now,
                  last_seen_at |-> now,
                  removed_from_youtube_at |-> NoValue]}

\* A SELECT without "removed_from_youtube_at IS NULL": rows marked before
\* are marked again.
mark_removed_items_again(T, playlist_id, current_item_ids, now) ==
    LET result == {r.item_id : r \in {x \in T : x.playlist_id = playlist_id}}
        gone == {i \in result : i \notin current_item_ids}
    IN {IF r.item_id \in gone
        THEN [r EXCEPT !.removed_from_youtube_at = now]
        ELSE r : r \in T}

\* The membership test inverted: "if item_id in current_item_ids".
mark_removed_items_inverted(T, playlist_id, current_item_ids, now) ==
    LET result == {r.item_id : r \in {x \in T : x.playlist_id = playlist_id
                                              /\ x.removed_from_youtube_at = NoValue}}
        gone == {i \in result : i \in current_item_ids}
    IN {IF r.item_id \in gone
        THEN [r EXCEPT !.removed_from_youtube_at = now]
        ELSE r : r \in T}

\* mark_removed_items: every live row of the playlist whose item_id is not in
\* current_item_ids gets removed_from_youtube_at = now (UPDATE ... WHERE
\* item_id = ?, so every row carrying that item_id).
mark_removed_items(T, playlist_id, current_item_ids, now) ==
    LET result == {r.item_id : r \in {x \in T : x.playlist_id = playlist_id
                                              /\ x.removed_from_youtube_at = NoValue}}
        gone == {i \in result : i \notin current_item_ids}
    IN {IF r.item_id \in gone
        THEN [r EXCEPT !.removed_from_youtube_at = now]
        ELSE r : r \in T}

\* -------------------------------------------------------- DuckLake catalog
\* One snapshot of the catalog: its id, its commit time, how many of the three
\* tables exist in it (playlists, then videos, then playlist_items, in the
\* order _init_schema creates them) and their rows.
Snapshot(id, time, ntables, tabs) ==
    [snapshot_id |-> id,
     snapshot_time |-> time,
     ntables |-> ntables,
     playlists |-> tabs.playlists,
     videos |-> tabs.videos,
     playlist_items |-> tabs.playlist_items]

TablesOf(snap) ==
    [playlists |-> snap.playlists, videos |-> snap.videos,
     playlist_items |-> snap.playlist_items]

\* _init_schema: three CREATE TABLE IF NOT EXISTS statements, each executed in
\* autocommit mode, so each one that creates a table publishes a snapshot.
init_schema(vs, now) ==
    IF Last(vs).ntables = 3
    THEN vs
    ELSE vs \o [i \in 1..3 |-> Snapshot(Len(vs) + i - 1, now, i, EmptyTables)]

\* get_connection of a new process: ATTACH creates the catalog with snapshot 0
\* when the store is fresh, then _init_schema runs outside any transaction.
get_connection(vs, now) ==
    init_schema(IF vs = <<>> THEN <<Snapshot(0, now, 0, EmptyTables)>> ELSE vs, now)

\* A commit that rewrites the latest snapshot in place.
commit_overwrites_latest(vs, tabs, wrote, now) ==
    IF wrote
    THEN [vs EXCEPT ![Len(vs)] = Snapshot(@.snapshot_id, now, 3, tabs)]
    ELSE vs

\* commit_transaction: COMMIT publishes the writes of the transaction as one
\* new snapshot; a transaction that wrote nothing publishes none.
commit_transaction(vs, tabs, wrote, now) ==
    IF wrote
    THEN Append(vs, Snapshot(Len(vs), now, 3, tabs))
    ELSE vs

\* A rollback that leaves the writes of the transaction in the store.
rollback_keeps_writes(vs, tabs) == tabs

\* rollback_transaction: ROLLBACK discards the writes of the transaction; the
\* connection sees the last committed snapshot again.
rollback_transaction(vs, tabs) == TablesOf(Last(vs))

\* A connection whose open transaction is written to the store when the
\* process ends.
process_exit_keeps_writes(vs, tabs) == tabs

\* The process ends with its transaction open: the in-process connection
\* (duckdb.connect(), held in the global _conn) is gone with it, the catalog
\* holds the committed snapshots only, and that is what the next connection
\* sees.
process_exit(vs, tabs) == TablesOf(Last(vs))

\* --------------------------------------------------------------- adapters
\* get_playlist_items_api: one (video, item) pair per remote playlistItem.
get_playlist_items_api(raws, playlist_id) ==
    [i \in 1..Len(raws) |->
        [video |-> Video_from_api_response(raws[i]),
         item |-> PlaylistItem_from_api_response(raws[i], playlist_id)]]

\* An entry yt-dlp could not read (None in info["entries"]).
NoneEntry == [id |-> NULL, title |-> NULL, duration |-> NoValue]

\* get_watch_later: the playlist object counts every entry; entries that are
\* None are skipped, the others keep their position in the remote list.
RECURSIVE ytdlp_entries(_, _, _)
ytdlp_entries(entries, playlist_id, n) ==
    IF n = 0
    THEN <<>>
    ELSE IF entries[n] = NoneEntry
         THEN ytdlp_entries(entries, playlist_id, n - 1)
         ELSE Append(ytdlp_entries(entries, playlist_id, n - 1),
                     [video |-> Video_from_ytdlp_entry(entries[n]),
                      item |-> PlaylistItem_from_ytdlp_entry(entries[n], playlist_id, n - 1)])

get_watch_later(entries) ==
    [playlist |-> [playlist_id |-> WATCH_LATER_PLAYLIST_ID,
                   title |-> "Watch Later",
                   description |-> "Your Watch Later playlist",
                   channel_id |-> NULL,
                   privacy_status |-> NULL,
                   item_count |-> Len(entries),
                   published_at |-> NoValue],
     pairs |-> ytdlp_entries(entries, WATCH_LATER_PLAYLIST_ID, Len(entries))]

\* ------------------------------------------------------------ backup loop
\* The loop "for video, item in zip(videos, items)": the first k pairs are
\* saved (k < Len(pairs) when a save raised).
RECURSIVE save_pairs(_, _, _, _)
save_pairs(tabs, pairs, k, now) ==
    IF k = 0
    THEN tabs
    ELSE LET t == save_pairs(tabs, pairs, k - 1, now)
         IN [t EXCEPT !.videos = upsert_video(@, pairs[k].video, now),
                      !.playlist_items = upsert_playlist_item(@, pairs[k].item, now)]

\* current_item_ids after the first k pairs.
current_item_ids(pairs, k) == {pairs[i].item.item_id : i \in 1..k}

\* The removal marking placed where it also runs after a failure.
sync_items_marks_after_failure(tabs, playlist_id, pairs, k, raised, now) ==
    LET t == save_pairs(tabs, pairs, k, now)
    IN [t EXCEPT !.playlist_items =
           mark_removed_items(@, playlist_id, current_item_ids(pairs, k), now)]

\* The body of the inner try: save the pairs, then mark_removed_items; when the
\* fetch or a save raised, the except clause prints a warning and the removal
\* marking is skipped.
sync_items(tabs, playlist_id, pairs, k, raised, now) ==
    LET t == save_pairs(tabs, pairs, k, now)
    IN IF raised
       THEN t
       ELSE [t EXCEPT !.playlist_items =
                mark_removed_items(@, playlist_id, current_item_ids(pairs, k), now)]

\* ------------------------------------------------------------------ reads
SnapshotIds(vs) == {vs[i].snapshot_id : i \in 1..Len(vs)}

\* AT (VERSION => v): the snapshot with that id.
AtVersion(vs, v) == CHOOSE snap \in Range(vs) : snap.snapshot_id = v

\* AT (TIMESTAMP => t): the last snapshot committed at or before t.
AtTimestamp(vs, t) ==
    CHOOSE snap \in Range(vs) :
        /\ snap.snapshot_time <= t
        /\ \A o \in Range(vs) : o.snapshot_time <= t => o.snapshot_id <= snap.snapshot_id

\* NoSnapshot: what the engine finds when no snapshot matches (no table exists).
NoSnapshot == Snapshot(NoValue, NoValue, 0, EmptyTables)

\* The test "if at_version:" in place of "if at_version is not None".
time_travel_truthy(vs, tabs, at_version, at_time) ==
    IF at_version # NoValue /\ at_version # 0
    THEN IF at_version \in SnapshotIds(vs) THEN AtVersion(vs, at_version) ELSE NoSnapshot
    ELSE IF at_time # NoValue
         THEN IF \E snap \in Range(vs) : snap.snapshot_time <= at_time
              THEN AtTimestamp(vs, at_time)
              ELSE NoSnapshot
         ELSE Snapshot(NoValue, NoValue, 3, tabs)

\* The time_travel clause shared by get_playlists and get_playlist_items:
\* at_version when it is not None, else at_time when it is non-empty, else the
\* connection's current view.  The result is the snapshot read; when the
\* engine finds no such snapshot it is NoSnapshot.
time_travel(vs, tabs, at_version, at_time) ==
    IF at_version # NoValue
    THEN IF at_version \in SnapshotIds(vs) THEN AtVersion(vs, at_version) ELSE NoSnapshot
    ELSE IF at_time # NoValue
         THEN IF \E snap \in Range(vs) : snap.snapshot_time <= at_time
              THEN AtTimestamp(vs, at_time)
              ELSE NoSnapshot
         ELSE Snapshot(NoValue, NoValue, 3, tabs)

\* get_playlists: the rows with deleted_from_youtube_at IS NULL (the ORDER BY
\* fixes only the order of presentation).
get_playlists(vs, tabs, at_version, at_time) ==
    LET snap == time_travel(vs, tabs, at_version, at_time)
    IN IF snap.ntables < 1
       THEN ERROR
       ELSE Rows({r \in snap.playlists : r.deleted_from_youtube_at = NoValue})

\* One row of the SELECT of get_playlist_items: the membership columns and the
\* LEFT JOINed video columns.
JoinedRow(pi, v) ==
    [item_id |-> pi.item_id,
     playlist_id |-> pi.playlist_id,
     video_id |-> pi.video_id,
     position |-> pi.position,
     added_at |-> pi.added_at,
     first_seen_at |-> pi.first_seen_at,
     last_seen_at |-> pi.last_seen_at,
     removed_from_youtube_at |-> pi.removed_from_youtube_at,
     title |-> v.title,
     channel_title |-> v.channel_title,
     duration_seconds |-> v.duration_seconds,
     is_available |-> v.is_available]

\* The video columns of a membership without a video row (LEFT JOIN).
NoVideo == [title |-> NULL, channel_title |-> NULL, duration_seconds |-> NoValue,
            is_available |-> NULL]

\* A join whose videos side carries no time-travel clause: the memberships of
\* the snapshot joined to the videos the connection sees now.
get_playlist_items_latest_videos(vs, tabs, playlist_id, at_version, at_time, include_removed) ==
    LET snap == time_travel(vs, tabs, at_version, at_time)
    IN IF snap.ntables < 3
       THEN ERROR
       ELSE Rows(UNION {
              IF \E v \in tabs.videos : v.video_id = pi.video_id
              THEN {JoinedRow(pi, v) : v \in {x \in tabs.videos : x.video_id = pi.video_id}}
              ELSE {JoinedRow(pi, NoVideo)}
              : pi \in {x \in snap.playlist_items :
                          /\ x.playlist_id = playlist_id
                          /\ (include_removed \/ x.removed_from_youtube_at = NoValue)}})

\* get_playlist_items: memberships of the playlist joined to the videos of the
\* same snapshot, without the removed ones unless include_removed.
get_playlist_items(vs, tabs, playlist_id, at_version, at_time, include_removed) ==
    LET snap == time_travel(vs, tabs, at_version, at_time)
    IN IF snap.ntables < 3
       THEN ERROR
       ELSE Rows(UNION {
              IF \E v \in snap.videos : v.video_id = pi.video_id
              THEN {JoinedRow(pi, v) : v \in {x \in snap.videos : x.video_id = pi.video_id}}
              ELSE {JoinedRow(pi, NoVideo)}
              : pi \in {x \in snap.playlist_items :
                          /\ x.playlist_id = playlist_id
                          /\ (include_removed \/ x.removed_from_youtube_at = NoValue)}})

\* What get_snapshot_changes returns, or the exception it raises.
Changes(pa, pr, ia, ir) ==
    [ok |-> TRUE, playlists_added |-> pa, playlists_removed |-> pr,
     items_added |-> ia, items_removed |-> ir]

ChangesError ==
    [ok |-> FALSE, playlists_added |-> {}, playlists_removed |-> {},
     items_added |-> {}, items_removed |-> {}]

\* The second pair of SELECTs without its AT (VERSION => ...) clause: version2
\* is read from the latest snapshot.
get_snapshot_changes_unversioned(vs, version1, version2) ==
    IF {version1, version2} \subseteq SnapshotIds(vs)
       /\ AtVersion(vs, version1).ntables = 3
       /\ AtVersion(vs, version2).ntables = 3
    THEN LET playlists_v1 == {r.playlist_id : r \in AtVersion(vs, version1).playlists}
             playlists_v2 == {r.playlist_id : r \in Last(vs).playlists}
             items_v1 == {r.item_id : r \in AtVersion(vs, version1).playlist_items}
             items_v2 == {r.item_id : r \in Last(vs).playlist_items}
         IN Changes(playlists_v2 \ playlists_v1, playlists_v1 \ playlists_v2,
                    items_v2 \ items_v1, items_v1 \ items_v2)
    ELSE ChangesError

\* items_removed computed as items_v2 - items_v1.
get_snapshot_changes_swapped(vs, version1, version2) ==
    IF {version1, version2} \subseteq SnapshotIds(vs)
       /\ AtVersion(vs, version1).ntables = 3
       /\ AtVersion(vs, version2).ntables = 3
    THEN LET playlists_v1 == {r.playlist_id : r \in AtVersion(vs, version1).playlists}
             playlists_v2 == {r.playlist_id : r \in AtVersion(vs, version2).playlists}
             items_v1 == {r.item_id : r \in AtVersion(vs, version1).playlist_items}
             items_v2 == {r.item_id : r \in AtVersion(vs, version2).playlist_items}
         IN Changes(playlists_v2 \ playlists_v1, playlists_v1 \ playlists_v2,
                    items_v2 \ items_v1, items_v2 \ items_v1)
    ELSE ChangesError

\* get_snapshot_changes: the playlist_id of every row of ytm.playlists and the
\* item_id of every row of ytm.playlist_items at each version (no WHERE
\* clause), compared as sets; a version that does not exist, or in which a
\* table does not exist, makes the SELECT raise.
get_snapshot_changes(vs, version1, version2) ==
    IF {version1, version2} \subseteq SnapshotIds(vs)
       /\ AtVersion(vs, version1).ntables = 3
       /\ AtVersion(vs, version2).ntables = 3
    THEN LET playlists_v1 == {r.playlist_id : r \in AtVersion(vs, version1).playlists}
             playlists_v2 == {r.playlist_id : r \in AtVersion(vs, version2).playlists}
             items_v1 == {r.item_id : r \in AtVersion(vs, version1).playlist_items}
             items_v2 == {r.item_id : r \in AtVersion(vs, version2).playlist_items}
         IN Changes(playlists_v2 \ playlists_v1, playlists_v1 \ playlists_v2,
                    items_v2 \ items_v1, items_v1 \ items_v2)
    ELSE ChangesError

\* COMMIT of a transaction that started from the tables `base` and now sees
\* `mine`, while other processes may have published snapshots since: the
\* rows it inserted are appended to the latest snapshot and the rows it
\* changed or deleted are replaced there; the commit fails when one of those
\* rows is no longer in the latest snapshot.  The catalog knows no key, so
\* appended rows are never in conflict.
Merged(latest, base, mine) == (latest \ (base \ mine)) \cup (mine \ base)

merge_commit(vs, base, mine, now) ==
    LET latest == TablesOf(Last(vs))
        merged == [playlists |-> Merged(latest.playlists, base.playlists, mine.playlists),
                   videos |-> Merged(latest.videos, base.videos, mine.videos),
                   playlist_items |-> Merged(latest.playlist_items,
                                             base.playlist_items, mine.playlist_items)]
        conflict == \/ ~((base.playlists \ mine.playlists) \subseteq latest.playlists)
                    \/ ~((base.videos \ mine.videos) \subseteq latest.videos)
                    \/ ~((base.playlist_items \ mine.playlist_items)
                            \subseteq latest.playlist_items)
    IN [ok |-> ~conflict,
        versions |-> IF conflict \/ mine = base THEN vs
                     ELSE Append(vs, Snapshot(Len(vs), now, 3, merged))]

\* A connection that reads the writer's uncommitted rows.
reader_sees_writer(vs, tabs) == tabs

\* The connection of another process (duckdb.connect() and ATTACH in that
\* process): an un-versioned SELECT on it sees the latest committed snapshot,
\* whatever the open transaction of the backup process has written.
reader_connection(vs, tabs) == TablesOf(Last(vs))

\* ------------------------------------------------------- remote responses
\* What playlists().list can return: distinct playlists, in any order.
RawPlaylistLists(n) ==
    {[i \in 1..Len(ids) |-> [id |-> ids[i], title |-> t, itemCount |-> 0]] :
        ids \in DistinctSeqs(PlaylistIds, n), t \in Titles}

\* What playlistItems().list can return for one playlist: distinct playlistItem
\* ids, each at the position of its place in the list.
RawItemLists(Ids, VTitles) ==
    {[i \in 1..Len(ids) |->
        [id |-> ids[i], videoId |-> vid, title |-> t, position |-> i - 1,
         publishedAt |-> 0]] :
        ids \in DistinctSeqs(Ids, Cardinality(Ids)), vid \in VideoIds, t \in VTitles}

\* The responses the runs below draw from: no, one or two playlists; the
\* memberships i1 and i2 of one video; the membership i1 alone, of a video
\* whose title may change or does not.
NoPlaylists == RawPlaylistLists(0)

OnePlaylist == RawPlaylistLists(1)

TwoPlaylists == RawPlaylistLists(2)

BothItems == RawItemLists(ItemIds, {"video"})

OneItemRetitled == RawItemLists({"i1"}, VideoTitles)

OneItem == RawItemLists({"i1"}, {"video"})

\* What yt-dlp can return as info["entries"] for Watch Later: distinct videos,
\* with or without a title, some entries possibly None.
YtdlpEntry(v) == [id |-> v, title |-> "video", duration |-> 60]

YtdlpEntryUntitled(v) == [id |-> v, title |-> NULL, duration |-> 60]

YtdlpEntryLists ==
    UNION {{e \in [1..k -> {YtdlpEntry(v) : v \in VideoIds}
                            \cup {YtdlpEntryUntitled(v) : v \in VideoIds}
                            \cup {NoneEntry}] :
              \A i, j \in 1..k : (i # j /\ e[i] # NoneEntry) => e[i] # e[j]} :
           k \in 0..Cardinality(VideoIds)}

\* ---------------------------------------------------------------- retention
\* A timestamp field of an item dict: None, a datetime without zone (t is its
\* wall-clock reading, taken as local time), a datetime with zone (t is its
\* instant in UTC), an ISO string without zone or ending in "Z", or a string
\* that fromisoformat rejects.  Time is counted in ticks, TicksPerDay to a day.
None == [kind |-> "none", t |-> 0]

Unparsable == [kind |-> "bad_str", t |-> 0]

Stamp(kind, t) == [kind |-> kind, t |-> t]

\* datetime.now(): the wall clock of a machine whose zone is utc_offset ticks
\* ahead of UTC, without zone.
datetime_now(now_utc, utc_offset) == Stamp("naive", now_utc + utc_offset)

\* A fallback that looks at first_seen_at before added_at.
effective_timestamp_first_seen(item) ==
    IF item.first_seen_at.kind # "none" THEN item.first_seen_at ELSE item.added_at

\* item.get("added_at") or item.get("first_seen_at")
effective_timestamp(item) ==
    IF item.added_at.kind # "none" THEN item.added_at ELSE item.first_seen_at

\* datetime.fromisoformat(added_at.replace("Z", "+00:00")); ValueError is None.
fromisoformat(stamp) ==
    CASE stamp.kind = "str_naive" -> Stamp("naive", stamp.t)
      [] stamp.kind = "str_aware" -> Stamp("aware", stamp.t)
      [] OTHER -> None

\* cutoff.replace(tzinfo=timezone.utc): the same reading, now labelled UTC.
replace_tzinfo_utc(stamp) == Stamp("aware", stamp.t)

\* One iteration of the for loop of get_items_older_than over `item`; frame
\* holds the locals cutoff and old_items, and raised after a TypeError.
older_than_iteration(frame, item) ==
    LET added_at == effective_timestamp(item)
        parsed == IF added_at.kind \in {"str_naive", "str_aware", "bad_str"}
                  THEN fromisoformat(added_at)
                  ELSE added_at
        cutoff == IF parsed.kind = "aware"
                  THEN replace_tzinfo_utc(frame.cutoff)
                  ELSE frame.cutoff
    IN IF parsed.kind = "none" THEN frame
       ELSE IF parsed.kind # cutoff.kind
            THEN [frame EXCEPT !.cutoff = cutoff, !.raised = TRUE]
       ELSE IF parsed.t < cutoff.t
            THEN [frame EXCEPT !.cutoff = cutoff,
                               !.old_items = Append(frame.old_items, item)]
       ELSE [frame EXCEPT !.cutoff = cutoff]

\* The locals of get_items_older_than before the loop.
older_than_frame(days, now) ==
    [cutoff |-> Stamp(now.kind, now.t - days * TicksPerDay),
     old_items |-> <<>>, raised |-> FALSE]

RECURSIVE older_than_loop(_, _, _)
older_than_loop(frame, items, i) ==
    IF i > Len(items) \/ frame.raised THEN frame
    ELSE older_than_loop(older_than_iteration(frame, items[i]), items, i + 1)

\* get_items_older_than(items, days) at the moment `now`: whether it
\* returned, and the list it returned.
get_items_older_than(items, days, now) ==
    LET frame == older_than_loop(older_than_frame(days, now), items, 1)
    IN [ok |-> ~frame.raised,
        old_items |-> IF frame.raised THEN <<>> ELSE frame.old_items]

\* The item dicts get_items_older_than can be called with: any kind of
\* timestamp in added_at, none or one without zone in first_seen_at.
AddedAtStamps ==
    {None, Unparsable, Stamp("str_aware", 1), Stamp("aware", 2)}
        \cup {Stamp("naive", t) : t \in 1..3}

FirstSeenAtStamps == {None, Stamp("naive", 1), Stamp("naive", 3)}

OlderIds == <<"v1", "v2", "v3", "v4">>

ItemDictLists ==
    UNION {{[i \in 1..n |-> [video_id |-> OlderIds[i], added_at |-> a[i],
                              first_seen_at |-> f[i]]] :
              a \in [1..n -> AddedAtStamps], f \in [1..n -> FirstSeenAtStamps]} :
           n \in 0..MaxItems}

\* ------------------------------------------------------------------- prune
\* str.upper() and str.lower(), on the characters that occur.
upper(s) == CASE s = "wl" -> "WL" [] s = "pl1" -> "PL1" [] OTHER -> s

lower(c) == CASE c = "D" -> "d" [] c = "W" -> "w" [] c = "M" -> "m" [] OTHER -> c

DigitChars == <<"0", "1", "2", "3", "4", "5", "6", "7", "8", "9">>

\* int(match.group(1)) of a string of digits, given as its characters.
RECURSIVE int(_)
int(chars) ==
    IF chars = <<>> THEN 0
    ELSE 10 * int(SubSeq(chars, 1, Len(chars) - 1))
         + (CHOOSE d \in 0..9 : DigitChars[d + 1] = chars[Len(chars)])

\* parse_duration: re.match of ^(\d+)([dwm])$ on the lowercased string, given
\* as its characters; ok is FALSE for typer.BadParameter.  Without
\* re.MULTILINE, $ matches at the end of the string and also just before a
\* newline that is its last character.
parse_duration(duration_str) ==
    LET lowered == [i \in 1..Len(duration_str) |-> lower(duration_str[i])]
        s == IF lowered # <<>> /\ Last(lowered) = "\n"
             THEN SubSeq(lowered, 1, Len(lowered) - 1)
             ELSE lowered
        n == Len(s)
    IN IF /\ n >= 2
          /\ s[n] \in {"d", "w", "m"}
          /\ \A i \in 1..(n - 1) : s[i] \in Range(DigitChars)
       THEN [ok |-> TRUE,
             days |-> int(SubSeq(s, 1, n - 1))
                        * (CASE s[n] = "d" -> 1 [] s[n] = "w" -> 7 [] s[n] = "m" -> 30)]
       ELSE [ok |-> FALSE, days |-> 0]

\* An option that was not given (None), and one given as `text`.
NotGiven == [given |-> FALSE, text |-> <<>>]

Given(text) == [given |-> TRUE, text |-> text]

\* --count absent (None), and --count n for any integer n.
NoCount == [given |-> FALSE, n |-> 0]

Count(n) == [given |-> TRUE, n |-> n]

\* A count that overlooks --all.
options_set_without_all(args) ==
    (IF args.older_than.given THEN 1 ELSE 0)
    + (IF args.count.given THEN 1 ELSE 0)

\* sum([older_than is not None, count is not None, all_items])
options_set(args) ==
    (IF args.older_than.given THEN 1 ELSE 0)
    + (IF args.count.given THEN 1 ELSE 0)
    + (IF args.all_items THEN 1 ELSE 0)

\* The command lines of "ytm prune".
DurationTexts ==
    {<<"0", "d">>, <<"9", "0", "d">>, <<"1", "W">>, <<"x">>, <<"d">>, <<"1">>}

PruneArgs ==
    [playlist_id : {"WL", "wl", "PL1"},
     older_than : {NotGiven} \cup {Given(t) : t \in DurationTexts},
     count : {NoCount, Count(1)},
     all_items : BOOLEAN,
     batch_size : BatchSizes,
     dry_run : BOOLEAN]

NoArgs ==
    [playlist_id |-> NULL, older_than |-> NotGiven, count |-> NoCount,
     all_items |-> FALSE, batch_size |-> 0, dry_run |-> FALSE]

\* A TIMESTAMP column as the datetime the driver returns: without zone.
to_datetime(t) == IF t = NoValue THEN None ELSE Stamp("naive", t)

\* _rows_to_dicts over the rows ORDER BY pi.position.
RECURSIVE rows_to_dicts(_)
rows_to_dicts(rows) ==
    IF rows = {} THEN <<>>
    ELSE LET r == CHOOSE r \in rows : \A o \in rows : r.position <= o.position
         IN <<[video_id |-> r.video_id, position |-> r.position, title |-> r.title,
               added_at |-> to_datetime(r.added_at),
               first_seen_at |-> to_datetime(r.first_seen_at)]>>
            \o rows_to_dicts(rows \ {r})

\* sorted(items, key=position, reverse=True): a stable sort.
RECURSIVE sorted_by_position(_)
sorted_by_position(items) ==
    IF items = <<>> THEN <<>>
    ELSE LET k == CHOOSE k \in 1..Len(items) :
                     /\ \A j \in 1..Len(items) : items[j].position <= items[k].position
                     /\ \A j \in 1..(k - 1) : items[j].position < items[k].position
         IN <<items[k]>>
            \o sorted_by_position([j \in 1..(Len(items) - 1) |->
                                     IF j < k THEN items[j] ELSE items[j + 1]])

\* items[:n]: a negative n counts from the end of the list.
Prefix(items, n) ==
    LET stop == IF n >= Len(items) THEN Len(items)
                ELSE IF n >= 0 THEN n
                ELSE IF Len(items) + n >= 0 THEN Len(items) + n
                ELSE 0
    IN SubSeq(items, 1, stop)

\* The Watch Later page as the browser shows it: distinct videos, each with
\* the text of its title element, which may be empty.
RemotePages ==
    {[i \in 1..Len(ids) |-> [video_id |-> ids[i], title |-> t[i]]] :
        ids \in UNION {DistinctSeqs(RemoteVideoIds, n) :
                         n \in 0..Cardinality(RemoteVideoIds)},
        t \in [1..Cardinality(RemoteVideoIds) -> {"video", ""}]}

\* ------------------------------------------------------------------- state
VARIABLES
    versions,   \* the snapshots of the DuckLake catalog, oldest first
    conn,       \* the tables as the process's connection sees them
    clock,      \* datetime.now(), advancing with every process that starts
    pc,         \* where the backup process is: idle, loop, watch_later, commit
    run,        \* the backup run: playlists left, flags, and what it did
    result,     \* how the last run ended: none, running, committed, rolled_back
    seen,       \* what the last read of another process returned
    older,      \* a call of get_items_older_than: arguments, position, locals
    prune,      \* a run of "ytm prune"
    second      \* a backup run of another process on the same store

vars == <<versions, conn, clock, pc, run, result, seen, older, prune, second>>

pruning == <<older, prune, second>>

\* run.inputs and run.prev are history, kept where run.keep says so:
\* run.inputs is what each complete sync of the run applied (the playlist and
\* the pairs fetched for it), run.prev the inputs of the run before when that
\* run committed without a warning.
NoRun ==
    [todo |-> <<>>, n |-> 0, watch_later |-> FALSE, wrote |-> FALSE,
     base |-> <<>>, before |-> <<>>, log |-> <<>>,
     keep |-> FALSE, inputs |-> <<>>, prev |-> [inputs |-> <<>>, ok |-> FALSE]]

\* One entry of run.log: the collection synced, the identities saved, whether
\* mark_removed_items ran, whether the enumeration behind it was complete, and
\* whether the except clause printed a warning.
LogEntry(playlist_id, ids, marked, complete) ==
    [playlist_id |-> playlist_id, ids |-> ids, marked |-> marked,
     complete |-> complete, warning |-> ~marked]

\* A loop that stops one playlist short of the end of the list.
NextPc_skips_last(todo, watch_later) ==
    IF Len(todo) >= 2 THEN "loop"
    ELSE IF watch_later THEN "watch_later"
    ELSE "commit"

\* Where the run goes when `todo` playlists are left.
NextPc(todo, watch_later) ==
    IF todo # <<>> THEN "loop"
    ELSE IF watch_later THEN "watch_later"
    ELSE "commit"

\* No read of another process yet.
NoRead ==
    [at |-> "none", playlists |-> ERROR,
     items |-> [p \in PlaylistIds \cup {WATCH_LATER_PLAYLIST_ID} |-> ERROR],
     version1 |-> NoValue, version2 |-> NoValue, changes |-> ChangesError]

\* No call of get_items_older_than.
NoCall ==
    [pc |-> "none", items |-> <<>>, days |-> 0, utc_offset |-> 0, i |-> 0,
     frame |-> older_than_frame(0, None)]

\* No run of prune, delete, empty or restore: the command, where it is, its
\* arguments and locals, whether it has opened the store, the remote page,
\* what it removed there and what it returned, the requests that change the
\* remote account it has sent to the API, and how it ended.
NoPrune ==
    [command |-> "none", pc |-> "none", args |-> NoArgs, older_than |-> NotGiven,
     opened |-> FALSE, items |-> <<>>, selected |-> <<>>,
     days |-> NoValue, page |-> <<>>, removed |-> <<>>, deleted_ids |-> <<>>,
     calls |-> <<>>, exit |-> "none"]

\* No second backup run: where it is, its datetime.now(), the tables of the
\* snapshot its transaction started from and the tables as it sees them.
NoSecond == [pc |-> "none", now |-> 0, base |-> EmptyTables, tabs |-> EmptyTables]

Init ==
    /\ versions = <<>>
    /\ conn = EmptyTables
    /\ clock = 0
    /\ pc = "idle"
    /\ run = NoRun
    /\ result = "none"
    /\ seen = NoRead
    /\ older = NoCall
    /\ prune = NoPrune
    /\ second = NoSecond

\* A read-only command (list, history) is the first to open a fresh store:
\* get_connection attaches it and creates the schema.
list_playlists(bound) ==
    /\ pc = "idle"
    /\ versions = <<>>
    /\ clock < bound
    /\ clock' = clock + 1
    /\ versions' = get_connection(versions, clock')
    /\ conn' = TablesOf(Last(versions'))
    /\ UNCHANGED <<pc, run, result, seen, pruning>>

\* backup, up to and including begin_transaction: the playlists are fetched,
\* the connection is opened and BEGIN TRANSACTION is executed.
backup_begin(lists, flags, bound, keep) ==
    /\ pc = "idle"
    /\ clock < bound
    /\ \E raws \in lists, watch_later \in flags :
        /\ clock' = clock + 1
        /\ versions' = get_connection(versions, clock')
        /\ conn' = TablesOf(Last(versions'))
        /\ run' = [todo |-> [i \in 1..Len(raws) |-> Playlist_from_api_response(raws[i])],
                   n |-> Len(raws),
                   watch_later |-> watch_later,
                   wrote |-> FALSE,
                   base |-> versions',
                   before |-> versions,
                   log |-> <<>>,
                   keep |-> keep,
                   inputs |-> <<>>,
                   prev |-> IF /\ keep
                               /\ result = "committed"
                               /\ \A i \in 1..Len(run.log) : ~run.log[i].warning
                            THEN [inputs |-> run.inputs, ok |-> TRUE]
                            ELSE [inputs |-> <<>>, ok |-> FALSE]]
        /\ pc' = NextPc(run'.todo, watch_later)
        /\ result' = "running"
        /\ seen' = seen
    /\ UNCHANGED pruning

\* One iteration of "for playlist in playlists": upsert_playlist, then the
\* inner try (fetch, save, mark removed) with its except clause.
backup_playlist(lists) ==
    /\ pc = "loop"
    /\ \E raws \in lists, raised \in BOOLEAN :
       \E k \in (IF raised THEN 0..Len(raws) ELSE {Len(raws)}) :
        LET playlist == Head(run.todo)
            pairs == get_playlist_items_api(raws, playlist.playlist_id)
            t == [conn EXCEPT !.playlists = upsert_playlist(@, playlist, clock)]
        IN /\ conn' = sync_items(t, playlist.playlist_id, pairs, k, raised, clock)
           /\ run' = [run EXCEPT !.todo = Tail(@),
                                 !.wrote = TRUE,
                                 !.log = Append(@, LogEntry(playlist.playlist_id,
                                                            current_item_ids(pairs, k),
                                                            ~raised, ~raised)),
                                 !.inputs = IF raised \/ ~run.keep
                                            THEN @
                                            ELSE Append(@, [playlist |-> playlist,
                                                            pairs |-> pairs])]
           /\ pc' = NextPc(run'.todo, run.watch_later)
    /\ UNCHANGED <<versions, clock, result, seen, pruning>>

\* The "if watch_later" block: get_watch_later, upsert_playlist, save, mark
\* removed, all inside one try whose except clause prints an error.
backup_watch_later ==
    /\ pc = "watch_later"
    /\ \/ \* get_watch_later raised: nothing is written
          /\ conn' = conn
          /\ run' = [run EXCEPT !.log = Append(@, LogEntry(WATCH_LATER_PLAYLIST_ID,
                                                          {}, FALSE, FALSE))]
       \/ \E entries \in YtdlpEntryLists, raised \in BOOLEAN :
          LET wl == get_watch_later(entries)
          IN \E k \in (IF raised THEN 0..Len(wl.pairs) ELSE {Len(wl.pairs)}) :
              LET t == [conn EXCEPT !.playlists = upsert_playlist(@, wl.playlist, clock)]
              IN /\ conn' = sync_items(t, WATCH_LATER_PLAYLIST_ID, wl.pairs, k, raised, clock)
                 /\ run' = [run EXCEPT
                       !.wrote = TRUE,
                       !.log = Append(@, LogEntry(WATCH_LATER_PLAYLIST_ID,
                                                  current_item_ids(wl.pairs, k),
                                                  ~raised,
                                                  ~raised /\ NoneEntry \notin Range(entries))),
                       !.inputs = IF raised \/ ~run.keep
                                  THEN @
                                  ELSE Append(@, [playlist |-> wl.playlist,
                                                  pairs |-> wl.pairs])]
    /\ pc' = "commit"
    /\ UNCHANGED <<versions, clock, result, seen, pruning>>

\* commit_transaction, after which the process ends.
backup_commit ==
    /\ pc = "commit"
    /\ versions' = commit_transaction(versions, conn, run.wrote, clock)
    /\ pc' = "idle"
    /\ result' = "committed"
    /\ UNCHANGED <<conn, clock, run, seen, pruning>>

\* The outer except clause: upsert_playlist of the next playlist raised, or
\* COMMIT raised; rollback_transaction, then exit with status 1.
backup_rollback ==
    /\ pc \in {"loop", "commit"}
    /\ conn' = rollback_transaction(versions, conn)
    /\ pc' = "idle"
    /\ result' = "rolled_back"
    /\ UNCHANGED <<versions, clock, run, seen, pruning>>

\* Ctrl-C or a kill between begin_transaction and commit_transaction:
\* KeyboardInterrupt is not an Exception, so neither except clause runs and
\* rollback_transaction is not called; the process ends.
backup_cancel ==
    /\ pc \in {"loop", "watch_later", "commit"}
    /\ conn' = process_exit(versions, conn)
    /\ pc' = "idle"
    /\ result' = "cancelled"
    /\ UNCHANGED <<versions, clock, run, seen, pruning>>

\* "ytm list" / "ytm show" / "ytm diff" run by another process while the
\* store exists, also while the backup process is inside its transaction:
\* get_connection (the schema exists, nothing is created), get_playlists,
\* get_playlist_items of every collection, and get_snapshot_changes from the
\* first version with tables to a version the user names.
read_concurrent ==
    /\ versions # <<>>
    /\ versions' = get_connection(versions, clock)
    /\ \E version2 \in {Last(versions).snapshot_id, Last(versions).snapshot_id + 1} :
        LET reader == reader_connection(versions', conn)
        IN seen' = [at |-> pc,
                    playlists |-> get_playlists(versions', reader, NoValue, NoValue),
                    items |-> [p \in PlaylistIds \cup {WATCH_LATER_PLAYLIST_ID} |->
                                 get_playlist_items(versions', reader, p,
                                                    NoValue, NoValue, FALSE)],
                    version1 |-> 3,
                    version2 |-> version2,
                    changes |-> get_snapshot_changes(versions', 3, version2)]
    /\ UNCHANGED <<conn, clock, pc, run, result, pruning>>

\* "ytm diff VERSION1 VERSION2" while no backup runs: get_snapshot_changes
\* opens the store (and creates the schema of a fresh one) and compares; what
\* it returns is printed, what it raises is reported as an error.
diff_versions(Versions, bound) ==
    /\ pc = "idle"
    /\ clock < bound
    /\ clock' = clock + 1
    /\ versions' = get_connection(versions, clock')
    /\ conn' = TablesOf(Last(versions'))
    /\ \E version1, version2 \in Versions :
          seen' = [NoRead EXCEPT
                     !.at = "diff",
                     !.version1 = version1,
                     !.version2 = version2,
                     !.changes = get_snapshot_changes(versions', version1, version2)]
    /\ UNCHANGED <<pc, run, result, pruning>>

\* prune, lines 70-83: the playlist id and the selection options are checked
\* and the default is filled in.
prune_watch_later(Args, bound) ==
    /\ pc = "idle"
    /\ prune.pc \in {"none", "done"}
    /\ clock < bound
    /\ clock' = clock + 1
    /\ \E args \in Args : prune' =
         IF upper(args.playlist_id) # "WL" \/ options_set(args) > 1
         THEN [NoPrune EXCEPT !.command = "prune", !.pc = "done", !.args = args,
                              !.older_than = args.older_than, !.exit = "invalid"]
         ELSE [NoPrune EXCEPT !.command = "prune", !.pc = "read", !.args = args,
                              !.older_than = IF options_set(args) = 0
                                             THEN Given(<<"9", "0", "d">>)
                                             ELSE args.older_than]
    /\ UNCHANGED <<versions, conn, pc, run, result, seen, older, second>>

\* prune, lines 86-91: database.get_playlist_items opens the store (and
\* creates the schema of a fresh one) and reads the live Watch Later rows.
prune_get_items ==
    /\ pc = "idle"
    /\ prune.pc = "read"
    /\ versions' = get_connection(versions, clock)
    /\ conn' = TablesOf(Last(versions'))
    /\ LET read == get_playlist_items(versions', conn', WATCH_LATER_PLAYLIST_ID,
                                      NoValue, NoValue, FALSE)
           items == rows_to_dicts(read.rows)
       IN prune' = IF items = <<>>
                   THEN [prune EXCEPT !.opened = TRUE, !.pc = "done",
                                      !.exit = "no_items"]
                   ELSE [prune EXCEPT !.opened = TRUE, !.pc = "select",
                                      !.items = items]
    /\ UNCHANGED <<clock, pc, run, result, seen, older, second>>

\* prune, lines 94-114: the selection by --all, --count or --older-than.
prune_select ==
    /\ prune.pc = "select"
    /\ LET args == prune.args
           duration == parse_duration(prune.older_than.text)
           selected_items ==
               IF args.all_items THEN prune.items
               ELSE IF args.count.given
                    THEN Prefix(sorted_by_position(prune.items), args.count.n)
               ELSE get_items_older_than(prune.items, duration.days,
                                         Stamp("naive", clock)).old_items
       IN prune' =
            IF ~args.all_items /\ ~args.count.given /\ ~duration.ok
            THEN [prune EXCEPT !.pc = "done", !.exit = "bad_parameter"]
            ELSE IF selected_items = <<>>
                 THEN [prune EXCEPT !.pc = "done", !.exit = "no_match",
                                    !.days = IF args.all_items \/ args.count.given
                                             THEN NoValue ELSE duration.days]
            ELSE [prune EXCEPT !.pc = "confirm", !.selected = selected_items,
                               !.days = IF args.all_items \/ args.count.given
                                        THEN NoValue ELSE duration.days]
    /\ UNCHANGED <<versions, conn, clock, pc, run, result, seen, older, second>>

\* prune, lines 139-146, and prune_watch_later_items up to the deletion loop:
\* a dry run ends here; otherwise the user answers the prompt and the browser
\* opens the Watch Later page, which may not load.
prune_confirm ==
    /\ prune.pc = "confirm"
    /\ \/ /\ prune.args.dry_run
          /\ prune' = [prune EXCEPT !.pc = "done", !.exit = "dry_run"]
       \/ /\ ~prune.args.dry_run
          /\ \/ prune' = [prune EXCEPT !.pc = "done", !.exit = "cancelled"]
             \/ prune' = [prune EXCEPT !.pc = "done", !.exit = "deleted"]
             \/ \E page \in RemotePages :
                    prune' = [prune EXCEPT !.pc = "browser", !.page = page]
    /\ UNCHANGED <<versions, conn, clock, pc, run, result, seen, older, second>>

\* One pass of "while deleted_count < batch_size" that does not fail: the
\* first video of the page is removed and its title recorded; the loop ends
\* when the count is reached or the page is empty.
prune_watch_later_items(call) ==
    IF Len(call.removed) >= call.args.batch_size \/ call.page = <<>>
    THEN [call EXCEPT !.pc = "done", !.exit = "deleted"]
    ELSE LET video_element == call.page[1]
             title == IF video_element.title # "" THEN video_element.title
                      ELSE "Unknown"
         IN [call EXCEPT !.page = Tail(@),
                         !.removed = Append(@, video_element),
                         !.deleted_ids = Append(@, title)]

\* The deletion loop of prune_watch_later_items, one pass at a time. A pass
\* over a page that shows a video may also raise: a TimeoutException or a
\* NoSuchElementException sends it to its handler, which sleeps and lets the
\* loop go on with deleted_count as it was; any other exception breaks the
\* loop.
prune_delete ==
    /\ prune.pc = "browser"
    /\ \/ prune' = prune_watch_later_items(prune)
       \/ /\ Len(prune.removed) < prune.args.batch_size
          /\ prune.page # <<>>
          /\ prune' = [prune EXCEPT !.pc = "retry"]
       \/ /\ Len(prune.removed) < prune.args.batch_size
          /\ prune' = [prune EXCEPT !.pc = "done", !.exit = "deleted"]
    /\ UNCHANGED <<versions, conn, clock, pc, run, result, seen, older, second>>

\* "Timeout, retrying..." / "Element not found, retrying...": after
\* time.sleep(1) the while condition is evaluated again.
prune_retry ==
    /\ prune.pc = "retry"
    /\ prune' = [prune EXCEPT !.pc = "browser"]
    /\ UNCHANGED <<versions, conn, clock, pc, run, result, seen, older, second>>

\* A request to the YouTube Data API that changes the remote account.
Call(op, playlist, id) == [op |-> op, playlist |-> playlist, id |-> id]

\* The playlist ids given to delete and empty: API playlists, and Watch Later
\* in upper and in lower case.
TargetIds == PlaylistIds \cup {"WL", "wl"}

\* "ytm delete": Watch Later is refused, the user confirms unless --force,
\* the playlist is deleted through the API, which may fail; the store is
\* never opened.
delete_playlist(bound) ==
    /\ pc = "idle"
    /\ prune.pc \in {"none", "done"}
    /\ clock < bound
    /\ clock' = clock + 1
    /\ \E playlist_id \in TargetIds,
          ending \in {"cancelled", "deleted", "failed"} :
          prune' = [NoPrune EXCEPT
                      !.command = "delete", !.pc = "done",
                      !.args = [NoArgs EXCEPT !.playlist_id = playlist_id],
                      !.exit = IF playlist_id = "WL" THEN "invalid" ELSE ending,
                      !.calls = IF playlist_id # "WL" /\ ending # "cancelled"
                                THEN <<Call("playlists.delete", playlist_id, NULL)>>
                                ELSE <<>>,
                      !.deleted_ids = IF playlist_id # "WL" /\ ending = "deleted"
                                      THEN <<playlist_id>> ELSE <<>>]
    /\ UNCHANGED <<versions, conn, pc, run, result, seen, older, second>>

\* "ytm empty": Watch Later is refused, the items are fetched from the API,
\* the user confirms unless --force, each item is deleted through the API
\* (some deletions may fail); the store is never opened.
empty_playlist(lists, bound) ==
    /\ pc = "idle"
    /\ prune.pc \in {"none", "done"}
    /\ clock < bound
    /\ clock' = clock + 1
    /\ \E playlist_id \in TargetIds,
          raws \in lists \cup {<<>>},
          ending \in {"failed", "dry_run", "cancelled", "deleted"} :
          \E done \in SUBSET (1..Len(raws)) :
             LET pairs == get_playlist_items_api(raws, playlist_id)
             IN prune' = [NoPrune EXCEPT
                   !.command = "empty", !.pc = "done",
                   !.args = [NoArgs EXCEPT !.playlist_id = playlist_id],
                   !.exit = IF playlist_id = "WL" THEN "invalid"
                            ELSE IF ending # "failed" /\ raws = <<>> THEN "no_items"
                            ELSE ending,
                   !.calls =
                        IF playlist_id # "WL" /\ ending = "deleted"
                        THEN [i \in 1..Len(raws) |->
                                 Call("playlistItems.delete", playlist_id,
                                      pairs[i].item.item_id)]
                        ELSE <<>>,
                   !.deleted_ids =
                        IF playlist_id # "WL" /\ ending = "deleted"
                        THEN [i \in 1..Len(raws) |->
                                 IF i \in done THEN pairs[i].item.item_id ELSE NULL]
                        ELSE <<>>]
    /\ UNCHANGED <<versions, conn, pc, run, result, seen, older, second>>

\* The command lines of "ytm restore": NULL is an option left out, NoValue a
\* --from-version left out.
RestoreVersions == {NoValue, 4, 9}

RestoreArgs ==
    [playlist_id : {"PL1", "PL2"},
     to_playlist : {NULL, "WL", "wl", "PL2"},
     from_version : RestoreVersions,
     dry_run : BOOLEAN,
     create_new : {NULL, "restored"}]

\* create_playlist returns the id of the new playlist, or None when the
\* request fails.
CreatedIds == {NULL, "PL9"}

\* "ytm restore": the target is validated, the items are read from the store,
\* a dry run ends after the preview, --create-new creates the playlist, the
\* user answers the prompt, and every item is added to the target.
restore_playlist(Args, bound) ==
    /\ pc = "idle"
    /\ prune.pc \in {"none", "done"}
    /\ clock < bound
    /\ clock' = clock + 1
    /\ \E args \in Args, created \in CreatedIds, confirm \in BOOLEAN :
        LET refused ==
                \/ args.to_playlist = NULL /\ args.create_new = NULL
                \/ args.to_playlist # NULL /\ upper(args.to_playlist) = "WL"
            vs == get_connection(versions, clock')
            read == get_playlist_items(vs, TablesOf(Last(vs)), args.playlist_id,
                                       args.from_version, NoValue, FALSE)
            items == rows_to_dicts(read.rows)
            create == IF args.create_new # NULL
                      THEN <<Call("playlists.insert", args.create_new, NULL)>>
                      ELSE <<>>
            target_id == IF args.create_new # NULL THEN created ELSE args.to_playlist
            call == [NoPrune EXCEPT !.command = "restore", !.pc = "done",
                                    !.args = args]
        IN IF refused
           THEN /\ prune' = [call EXCEPT !.exit = "invalid"]
                /\ UNCHANGED <<versions, conn>>
           ELSE /\ versions' = vs
                /\ conn' = TablesOf(Last(vs))
                /\ prune' =
                     IF ~read.ok
                     THEN [call EXCEPT !.opened = TRUE, !.exit = "error"]
                     ELSE IF items = <<>>
                     THEN [call EXCEPT !.opened = TRUE, !.exit = "no_items"]
                     ELSE IF args.dry_run
                     THEN [call EXCEPT !.opened = TRUE, !.items = items,
                                       !.exit = "dry_run"]
                     ELSE IF target_id = NULL
                     THEN [call EXCEPT !.opened = TRUE, !.items = items,
                                       !.calls = create, !.exit = "create_failed"]
                     ELSE IF ~confirm
                     THEN [call EXCEPT !.opened = TRUE, !.items = items,
                                       !.calls = create, !.exit = "cancelled"]
                     ELSE [call EXCEPT
                             !.opened = TRUE, !.items = items,
                             !.calls = create \o
                                 [i \in 1..Len(items) |->
                                     Call("playlistItems.insert", target_id,
                                          items[i].video_id)],
                             !.exit = "restored"]
    /\ UNCHANGED <<pc, run, result, seen, older, second>>

\* A second "ytm backup" process starts: get_connection, the playlists are
\* listed, begin_transaction.
second_begin(bound) ==
    /\ second.pc = "none"
    /\ clock < bound
    /\ clock' = clock + 1
    /\ versions' = get_connection(versions, clock')
    /\ second' = [pc |-> "loop", now |-> clock',
                  base |-> TablesOf(Last(versions')),
                  tabs |-> TablesOf(Last(versions'))]
    /\ UNCHANGED <<conn, pc, run, result, seen, older, prune>>

\* Its "for playlist in playlists" over a list of at most one playlist:
\* upsert_playlist, the items fetched and saved, mark_removed_items, every
\* SELECT answered from its own snapshot and its own writes.
second_playlist(playlists, lists) ==
    /\ second.pc = "loop"
    /\ \E raw \in playlists, raws \in lists :
        LET playlist == Playlist_from_api_response(raw[1])
            pairs == get_playlist_items_api(raws, playlist.playlist_id)
            t == [second.tabs EXCEPT
                     !.playlists = upsert_playlist(@, playlist, second.now)]
        IN second' = [second EXCEPT
                        !.pc = "commit",
                        !.tabs = IF raw = <<>> THEN @
                                 ELSE sync_items(t, playlist.playlist_id, pairs,
                                                 Len(raws), FALSE, second.now)]
    /\ UNCHANGED <<versions, conn, clock, pc, run, result, seen, older, prune>>

\* Its commit_transaction, taken while the first process is outside its own
\* transaction; when COMMIT raises, the run rolls back and exits.
second_commit ==
    /\ second.pc = "commit"
    /\ pc = "idle"
    /\ LET commit == merge_commit(versions, second.base, second.tabs, second.now)
       IN /\ versions' = commit.versions
          /\ second' = [second EXCEPT
                          !.pc = IF commit.ok THEN "committed" ELSE "rolled_back"]
    /\ UNCHANGED <<conn, clock, pc, run, result, seen, older, prune>>

\* Runs of "ytm backup" (without --watch-later), one at a time.
Next ==
    \/ list_playlists(MaxClock)
    \/ backup_begin(TwoPlaylists, {FALSE}, MaxClock, FALSE)
    \/ backup_playlist(BothItems)
    \/ backup_commit
    \/ backup_rollback

Spec == Init /\ [][Next]_vars

\* Runs of "ytm backup" with or without --watch-later, at most one API
\* playlist per run, over the single membership i1 and a video whose title
\* changes, keeping what each run applied.
NextWL ==
    \/ list_playlists(MaxClock)
    \/ backup_begin(OnePlaylist, BOOLEAN, MaxClock, TRUE)
    \/ backup_playlist(OneItemRetitled)
    \/ backup_watch_later
    \/ backup_commit
    \/ backup_rollback

SpecWL == Init /\ [][NextWL]_vars

\* More runs, over the single membership i1.
NextLong ==
    \/ list_playlists(MaxClockLong)
    \/ backup_begin(TwoPlaylists, {FALSE}, MaxClockLong, FALSE)
    \/ backup_playlist(OneItem)
    \/ backup_commit
    \/ backup_rollback

SpecLong == Init /\ [][NextLong]_vars

\* Runs of "ytm backup" over the single membership i1, with reads by another
\* process at any moment.
NextRead ==
    \/ list_playlists(MaxClock)
    \/ backup_begin(TwoPlaylists, {FALSE}, MaxClock, FALSE)
    \/ backup_playlist(OneItem)
    \/ backup_commit
    \/ backup_rollback
    \/ read_concurrent

SpecRead == Init /\ [][NextRead]_vars

\* Runs of "ytm backup" over the single membership i1 that the user may
\* interrupt.
NextCancel ==
    \/ list_playlists(MaxClock)
    \/ backup_begin(TwoPlaylists, {FALSE}, MaxClock, FALSE)
    \/ backup_playlist(OneItem)
    \/ backup_commit
    \/ backup_rollback
    \/ backup_cancel

SpecCancel == Init /\ [][NextCancel]_vars

\* More runs over the single membership i1, keeping what each run applied.
NextKeep ==
    \/ list_playlists(MaxClockLong)
    \/ backup_begin(TwoPlaylists, {FALSE}, MaxClockLong, TRUE)
    \/ backup_playlist(OneItem)
    \/ backup_commit
    \/ backup_rollback

SpecKeep == Init /\ [][NextKeep]_vars

\* Runs of "ytm backup --watch-later" without API playlists, and the
\* commands that delete on the remote side, one process at a time.
NextPrune ==
    \/ backup_begin(NoPlaylists, {TRUE}, MaxClock, FALSE)
    \/ backup_watch_later
    \/ backup_commit
    \/ prune_watch_later(PruneArgs, MaxClock)
    \/ prune_get_items
    \/ prune_select
    \/ prune_confirm
    \/ prune_delete
    \/ prune_retry
    \/ delete_playlist(MaxClock)
    \/ empty_playlist(OneItem, MaxClock)

SpecPrune == Init /\ [][NextPrune]_vars

\* The same runs, in a process that keeps executing: a pass of the deletion
\* loop that can be made is made, and the sleep of a retry ends.
SpecPruneFair ==
    /\ Init
    /\ [][NextPrune]_vars
    /\ WF_vars(prune_delete)
    /\ WF_vars(prune_retry)

\* Runs of "ytm backup" of one API playlist over the single membership i1
\* and a video whose title and availability change.
NextJoin ==
    \/ backup_begin(OnePlaylist, {FALSE}, MaxClockLong, FALSE)
    \/ backup_playlist(OneItemRetitled)
    \/ backup_commit
    \/ backup_rollback

SpecJoin == Init /\ [][NextJoin]_vars

\* Runs of "ytm backup" over the single membership i1, and one more such
\* run by a second process at any moment.
NextConcurrent ==
    \/ backup_begin(OnePlaylist, {FALSE}, MaxClockLong, FALSE)
    \/ backup_playlist(OneItem)
    \/ backup_commit
    \/ backup_rollback
    \/ second_begin(MaxClockLong)
    \/ second_playlist(OnePlaylist, OneItem)
    \/ second_commit

SpecConcurrent == Init /\ [][NextConcurrent]_vars

\* Runs of "ytm backup" over the single membership i1 and runs of "ytm
\* restore", "ytm delete" and "ytm empty".
NextRestore ==
    \/ backup_begin(OnePlaylist, {FALSE}, MaxClock, FALSE)
    \/ backup_playlist(OneItem)
    \/ backup_commit
    \/ restore_playlist(RestoreArgs, MaxClock)
    \/ delete_playlist(MaxClock)
    \/ empty_playlist(OneItem, MaxClock)

SpecRestore == Init /\ [][NextRestore]_vars

\* Runs of "ytm backup" over the single membership i1 and runs of "ytm diff"
\* on versions that exist and versions that do not.
DiffVersions == 0..(MaxClock + 4)

NextDiff ==
    \/ backup_begin(OnePlaylist, {FALSE}, MaxClock, FALSE)
    \/ backup_playlist(OneItem)
    \/ backup_commit
    \/ backup_rollback
    \/ diff_versions(DiffVersions, MaxClock)

SpecDiff == Init /\ [][NextDiff]_vars

\* get_items_older_than is called on some list of item dicts, on a machine
\* in some zone, at the moment OlderNow.
InitOlder ==
    /\ versions = <<>>
    /\ conn = EmptyTables
    /\ clock = 0
    /\ pc = "idle"
    /\ run = NoRun
    /\ result = "none"
    /\ seen = NoRead
    /\ prune = NoPrune
    /\ second = NoSecond
    /\ \E items \in ItemDictLists, days \in Days, utc_offset \in UtcOffsets :
          older = [pc |-> "loop", items |-> items, days |-> days,
                   utc_offset |-> utc_offset, i |-> 1,
                   frame |-> older_than_frame(days,
                                 datetime_now(OlderNow, utc_offset))]

\* One iteration of the loop; a TypeError leaves the function.
older_than_next_item ==
    /\ older.pc = "loop"
    /\ older.i <= Len(older.items)
    /\ LET frame == older_than_iteration(older.frame, older.items[older.i])
       IN older' = [older EXCEPT !.frame = frame, !.i = older.i + 1,
                                 !.pc = IF frame.raised THEN "raised" ELSE "loop"]
    /\ UNCHANGED <<versions, conn, clock, pc, run, result, seen, prune, second>>

\* return old_items
older_than_return ==
    /\ older.pc = "loop"
    /\ older.i > Len(older.items)
    /\ older' = [older EXCEPT !.pc = "returned"]
    /\ UNCHANGED <<versions, conn, clock, pc, run, result, seen, prune, second>>

NextOlder ==
    \/ older_than_next_item
    \/ older_than_return

SpecOlder == InitOlder /\ [][NextOlder]_vars

\* prune has read some stored Watch Later list, ordered by position, and was
\* started with --count n for some integer n.
CountVideoIds == {"v1", "v2", "v3"}

Counts == (0 - 1)..(MaxItems + 1)

CountItem(video_id, position) ==
    [video_id |-> video_id, position |-> position, title |-> "video",
     added_at |-> None, first_seen_at |-> Stamp("naive", 1)]

CountItemLists ==
    {items \in UNION {[1..n -> {CountItem(v, q) : v \in CountVideoIds, q \in 0..MaxItems}]
                         : n \in 1..MaxItems} :
        /\ \A i, j \in 1..Len(items) : i # j => items[i].video_id # items[j].video_id
        /\ \A i \in 1..(Len(items) - 1) : items[i].position <= items[i + 1].position}

InitCount ==
    /\ versions = <<>>
    /\ conn = EmptyTables
    /\ clock = 0
    /\ pc = "idle"
    /\ run = NoRun
    /\ result = "none"
    /\ seen = NoRead
    /\ older = NoCall
    /\ second = NoSecond
    /\ \E items \in CountItemLists, n \in Counts :
          prune = [NoPrune EXCEPT
                      !.command = "prune", !.pc = "select",
                      !.args = [NoArgs EXCEPT !.playlist_id = "WL",
                                              !.count = Count(n),
                                              !.batch_size = 1],
                      !.opened = TRUE, !.items = items]

NextCount ==
    \/ prune_select
    \/ prune_confirm

SpecCount == InitCount /\ [][NextCount]_vars

\* prune has read a stored Watch Later item and was started with
\* --older-than followed by some string of at most MaxDurationLen characters.
DurationChars == {"0", "1", "9", "d", "W", "m", "x", "\n"}

DurationStrings == UNION {[1..n -> DurationChars] : n \in 0..MaxDurationLen}

InitDuration ==
    /\ versions = <<>>
    /\ conn = EmptyTables
    /\ clock = 0
    /\ pc = "idle"
    /\ run = NoRun
    /\ result = "none"
    /\ seen = NoRead
    /\ older = NoCall
    /\ second = NoSecond
    /\ \E text \in DurationStrings :
          prune = [NoPrune EXCEPT
                      !.command = "prune", !.pc = "select",
                      !.args = [NoArgs EXCEPT !.playlist_id = "WL",
                                              !.older_than = Given(text),
                                              !.batch_size = 1],
                      !.older_than = Given(text),
                      !.opened = TRUE, !.items = <<CountItem("v1", 0)>>]

NextDuration ==
    \/ prune_select

SpecDuration == InitDuration /\ [][NextDuration]_vars

\* ============================================================== properties
Collections == PlaylistIds \cup {WATCH_LATER_PLAYLIST_ID}

\* Everything the two listing reads return for one choice of at_version and
\* at_time: the playlists, and the items of every collection with and without
\* the removed ones.
AllReads(vs, tabs, at_version, at_time) ==
    [playlists |-> get_playlists(vs, tabs, at_version, at_time),
     items |-> [p \in Collections, inc \in BOOLEAN |->
                   get_playlist_items(vs, tabs, p, at_version, at_time, inc)]]

ItemIdsOf(read) == {r.item_id : r \in read.rows}

\* The run has ended in commit_transaction and published a version.
Published == result = "committed" /\ Len(versions) = Len(run.base) + 1

\* Version N (the one the run started from) and N+1 (the one it published).
VersionN == Last(run.base)

VersionN1 == Last(versions)

\* The collections of the run that printed a warning.
Warnings == {i \in 1..Len(run.log) : run.log[i].warning}

\* Identities marked removed in `after` that were not marked in `before`.
NewlyRemoved(before, after) ==
    {r.item_id : r \in {x \in after : x.removed_from_youtube_at # NoValue}}
        \ {r.item_id : r \in {x \in before : x.removed_from_youtube_at # NoValue}}

C3_CollectionFailureNotFatal ==
    [][(Len(run'.log) = Len(run.log) + 1 /\ Last(run'.log).warning) =>
            /\ NewlyRemoved(conn.playlist_items, conn'.playlist_items) = {}
            /\ versions' = versions
            /\ result' = "running"
            /\ pc' = NextPc(run'.todo, run'.watch_later)
            /\ run'.todo = Tail(run.todo)
      ]_vars

\* A run committed after a warning for a collection that was not the last one,
\* and a live membership of that collection, not seen in the failed fetch, is
\* still live.
C3_Witness ==
    /\ Published
    /\ \E i \in Warnings :
        /\ i < Len(run.log)
        /\ \E r \in conn.playlist_items :
            /\ r.playlist_id = run.log[i].playlist_id
            /\ r.item_id \notin run.log[i].ids
            /\ r.removed_from_youtube_at = NoValue

\* C4: a membership is marked removed only by a mark_removed_items that ran
\* for its collection with the identities of a complete enumeration; a failed
\* fetch or an enumeration with unreadable entries marks nothing.
C4_FailClosedRemoval ==
    [][\A r \in conn'.playlist_items :
          r.item_id \in NewlyRemoved(conn.playlist_items, conn'.playlist_items) =>
            /\ Len(run'.log) = Len(run.log) + 1
            /\ Last(run'.log).playlist_id = r.playlist_id
            /\ Last(run'.log).marked
            /\ Last(run'.log).complete
      ]_vars

\* The row(s) of version `snap` that carry the membership identity `id`.
ItemRows(snap, id) == {r \in snap.playlist_items : r.item_id = id}

\* Position in run.log of the syncs of collection `p` that ran
\* mark_removed_items on a complete enumeration not containing `id`.
CompleteSyncsWithout(p, id) ==
    {i \in 1..Len(run.log) :
        /\ run.log[i].playlist_id = p
        /\ run.log[i].complete
        /\ id \notin run.log[i].ids}

\* What C5 promises for membership m of version N at version N+1.
RemovedAtN1(m) ==
    /\ \A r \in ItemRows(VersionN1, m.item_id) : r.removed_from_youtube_at # NoValue
    /\ m.item_id \notin ItemIdsOf(get_playlist_items(versions, conn, m.playlist_id,
                                     VersionN1.snapshot_id, NoValue, FALSE))
    /\ m.item_id \in ItemIdsOf(get_playlist_items(versions, conn, m.playlist_id,
                                  VersionN1.snapshot_id, NoValue, TRUE))

\* C5 as claimed: a membership live at version N and absent from the complete
\* snapshot of its collection synced in the run that produced N+1 is marked
\* removed at N+1, hidden from the default listing and shown with
\* include_removed.
C5_RemovedWhenAbsent ==
    Published =>
        \A m \in VersionN.playlist_items :
            (m.removed_from_youtube_at = NoValue
             /\ CompleteSyncsWithout(m.playlist_id, m.item_id) # {})
                => RemovedAtN1(m)

\* C5 as amended: the same, for a membership that no collection synced later
\* in that run reports under the same identity.
C5_RemovedWhenAbsentAndNotSeenLater ==
    Published =>
        \A m \in VersionN.playlist_items :
            (m.removed_from_youtube_at = NoValue
             /\ \E i \in CompleteSyncsWithout(m.playlist_id, m.item_id) :
                  \A j \in (i + 1)..Len(run.log) : m.item_id \notin run.log[j].ids)
                => RemovedAtN1(m)

\* A run published a version in which a membership that was live is marked
\* removed while another membership of the same collection stays live.
C5_Witness ==
    /\ Published
    /\ \E m \in VersionN.playlist_items :
        /\ m.removed_from_youtube_at = NoValue
        /\ CompleteSyncsWithout(m.playlist_id, m.item_id) # {}
        /\ RemovedAtN1(m)
        /\ \E o \in VersionN1.playlist_items :
            /\ o.playlist_id = m.playlist_id
            /\ o.removed_from_youtube_at = NoValue

\* C6: a playlist stored at version N that the playlist enumeration of the
\* next committed run no longer reports has deleted_from_youtube_at set at
\* N+1 and is not returned by get_playlists there, its row being kept.
C6_PlaylistRemovedWhenAbsent ==
    Published =>
        \A p \in VersionN.playlists :
            (/\ p.deleted_from_youtube_at = NoValue
             /\ p.playlist_id # WATCH_LATER_PLAYLIST_ID
             /\ \A i \in 1..Len(run.log) : run.log[i].playlist_id # p.playlist_id)
            => /\ \E r \in VersionN1.playlists :
                    /\ r.playlist_id = p.playlist_id
                    /\ r.deleted_from_youtube_at # NoValue
               /\ p.playlist_id \notin
                    {r.playlist_id :
                        r \in get_playlists(versions, conn, VersionN1.snapshot_id, NoValue).rows}

\* C7: a membership or playlist marked removed at version N and observed again
\* in the run that publishes N+1 has its removal timestamp NULL at N+1 and is
\* listed by the default listings.
C7_ReappearanceClearsRemoval ==
    Published =>
        /\ \A m \in VersionN.playlist_items :
            (m.removed_from_youtube_at # NoValue
             /\ \E i \in 1..Len(run.log) : m.item_id \in run.log[i].ids)
            => /\ \A r \in ItemRows(VersionN1, m.item_id) : r.removed_from_youtube_at = NoValue
               /\ m.item_id \in ItemIdsOf(get_playlist_items(versions, conn, m.playlist_id,
                                             VersionN1.snapshot_id, NoValue, FALSE))
        /\ \A p \in VersionN.playlists :
            (p.deleted_from_youtube_at # NoValue
             /\ \E i \in 1..Len(run.log) : run.log[i].playlist_id = p.playlist_id)
            => p.playlist_id \in
                 {r.playlist_id :
                     r \in get_playlists(versions, conn, VersionN1.snapshot_id, NoValue).rows}

\* C8: a run that ends in commit_transaction adds exactly one version to the
\* versions the store had when the run started, with the greatest identifier;
\* a run that rolls back adds none.
C8_OneVersionPerRun ==
    /\ result = "committed" =>
        /\ Len(versions) = Len(run.before) + 1
        /\ \A i \in 1..Len(run.before) :
              run.before[i].snapshot_id < Last(versions).snapshot_id
    /\ result = "rolled_back" => Len(versions) = Len(run.before)

\* C9: no step changes what get_playlists and get_playlist_items return for an
\* existing version, and no step drops a version.
C9_VersionsImmutable ==
    [][/\ Len(versions') >= Len(versions)
       /\ \A i \in 1..Len(versions) :
            /\ versions'[i].snapshot_id = versions[i].snapshot_id
            /\ AllReads(versions', conn', versions[i].snapshot_id, NoValue)
                 = AllReads(versions, conn, versions[i].snapshot_id, NoValue)
      ]_vars

\* Two runs have published versions that read differently, and a later run
\* rolled back.
C9_Witness ==
    /\ result = "rolled_back"
    /\ \E i, j \in 1..Len(versions) :
        /\ i < j
        /\ versions[i].ntables = 3
        /\ versions[i].playlist_items # {}
        /\ AllReads(versions, conn, versions[i].snapshot_id, NoValue)
             # AllReads(versions, conn, versions[j].snapshot_id, NoValue)

\* What version `snap` holds, as the two reads present it.
StateOf(snap) == AllReads(<<snap>>, EmptyTables, snap.snapshot_id, NoValue)

\* The last version committed at or before t.
LastAtOrBefore(t) ==
    CHOOSE snap \in Range(versions) :
        /\ snap.snapshot_time <= t
        /\ \A o \in Range(versions) :
              o.snapshot_time <= t => o.snapshot_id <= snap.snapshot_id

\* C10: a read with at_version = v returns the state version v committed (the
\* connection's state at the commit that published v); with at_time = t the
\* state of the last version committed at or before t; with neither, between
\* runs, the state of the latest version.
C10_TimeTravelReads ==
    /\ [](\A i \in 1..Len(versions) :
            AllReads(versions, conn, versions[i].snapshot_id, NoValue)
                = StateOf(versions[i]))
    /\ [](\A t \in 0..clock :
            (\E snap \in Range(versions) : snap.snapshot_time <= t) =>
                AllReads(versions, conn, NoValue, t) = StateOf(LastAtOrBefore(t)))
    /\ []((pc = "idle" /\ versions # <<>>) =>
            AllReads(versions, conn, NoValue, NoValue) = StateOf(Last(versions)))
    /\ [][(pc = "commit" /\ Len(versions') = Len(versions) + 1) =>
            AllReads(versions', conn', Last(versions').snapshot_id, NoValue)
                = AllReads(versions, conn, NoValue, NoValue)]_vars

\* Two versions committed at different times hold different states, so the
\* three kinds of read have different answers to choose from.
C10_Witness ==
    /\ pc = "idle"
    /\ \E i, j \in 1..Len(versions) :
        /\ versions[i].snapshot_time < versions[j].snapshot_time
        /\ versions[i].playlist_items # {}
        /\ StateOf(versions[i]) # StateOf(versions[j])
        /\ AllReads(versions, conn, NoValue, versions[i].snapshot_time)
             # AllReads(versions, conn, NoValue, NoValue)

\* What the default listings (playlists, live items of every collection)
\* return on tables `tabs`.
ListingOf(tabs) ==
    [playlists |-> get_playlists(<<>>, tabs, NoValue, NoValue),
     items |-> [p \in Collections |->
                  get_playlist_items(<<>>, tabs, p, NoValue, NoValue, FALSE)]]

\* The listing part of a read of another process.
ListingSeen(s) == [playlists |-> s.playlists, items |-> s.items]

C13_NoWriteOutsideTransaction ==
    [][(versions' # versions \/ conn' # conn) =>
            pc \in {"loop", "watch_later", "commit"}]_vars

\* The versions in which the three tables exist.
TableVersions == {snap \in Range(versions) : snap.ntables = 3}

\* The identities live (removal timestamp NULL) at a version.
LiveItems(snap) ==
    {r.item_id : r \in {x \in snap.playlist_items : x.removed_from_youtube_at = NoValue}}

LivePlaylists(snap) ==
    {r.playlist_id : r \in {x \in snap.playlists : x.deleted_from_youtube_at = NoValue}}

\* C14: for all versions a and b, get_snapshot_changes(a, b) reports as
\* removed exactly the identities live at a and not live at b, and as added
\* exactly those live at b and not live at a, so a membership soft-deleted
\* between a and b is in items_removed.
C14_DiffOverLiveView ==
    \A a, b \in TableVersions :
        LET changes == get_snapshot_changes(versions, a.snapshot_id, b.snapshot_id)
        IN /\ changes.ok
           /\ changes.items_removed = LiveItems(a) \ LiveItems(b)
           /\ changes.items_added = LiveItems(b) \ LiveItems(a)
           /\ changes.playlists_removed = LivePlaylists(a) \ LivePlaylists(b)
           /\ changes.playlists_added = LivePlaylists(b) \ LivePlaylists(a)

\* C15: for all pairs of existing versions a and b, what
\* get_snapshot_changes(a, b) reports as added is what
\* get_snapshot_changes(b, a) reports as removed, and the other way round,
\* for playlists and for items; one call raises exactly when the other does.
C15_DiffSymmetry ==
    \A a, b \in SnapshotIds(versions) :
        LET ab == get_snapshot_changes(versions, a, b)
            ba == get_snapshot_changes(versions, b, a)
        IN /\ ab.ok = ba.ok
           /\ ab.playlists_added = ba.playlists_removed
           /\ ab.playlists_removed = ba.playlists_added
           /\ ab.items_added = ba.items_removed
           /\ ab.items_removed = ba.items_added

\* Two versions between which a playlist and a membership were added.
C15_Witness ==
    \E a, b \in SnapshotIds(versions) :
        LET ab == get_snapshot_changes(versions, a, b)
        IN /\ ab.ok
           /\ ab.playlists_added # {}
           /\ ab.items_added # {}
           /\ ab.items_removed = {}

WithoutSeen(r) == [f \in (DOMAIN r) \ {"last_seen_at", "last_updated_at"} |-> r[f]]

\* The run applied, completely, exactly what the run before it applied, and
\* both committed.
AppliedTwice ==
    /\ Published
    /\ Warnings = {}
    /\ run.inputs # <<>>
    /\ run.prev.ok
    /\ run.prev.inputs = run.inputs

\* C17: when two consecutive runs apply the identical complete snapshots, the
\* second changes no field of any playlist, video or membership row other
\* than last_seen_at / last_updated_at, marks nothing removed, and the diff
\* between the two versions is empty.
C17_Idempotence ==
    AppliedTwice =>
        /\ {WithoutSeen(r) : r \in VersionN1.playlists}
             = {WithoutSeen(r) : r \in VersionN.playlists}
        /\ {WithoutSeen(r) : r \in VersionN1.videos}
             = {WithoutSeen(r) : r \in VersionN.videos}
        /\ {WithoutSeen(r) : r \in VersionN1.playlist_items}
             = {WithoutSeen(r) : r \in VersionN.playlist_items}
        /\ NewlyRemoved(VersionN.playlist_items, VersionN1.playlist_items) = {}
        /\ get_snapshot_changes(versions, VersionN.snapshot_id, VersionN1.snapshot_id)
             = Changes({}, {}, {}, {})

\* The optional columns of ytm.videos, by type.
VideoStrFields == {"title", "description", "channel_id", "channel_title", "thumbnail_url"}

VideoIntFields == {"duration_seconds", "published_at"}

\* The value of field f of video `vid` after the first n pairs were observed:
\* the last observed value that is not `null`, else the stored value `old`.
RECURSIVE Observed(_, _, _, _, _, _)
Observed(pairs, n, vid, f, null, old) ==
    IF n = 0
    THEN old
    ELSE IF pairs[n].video.video_id = vid /\ pairs[n].video[f] # null
         THEN pairs[n].video[f]
         ELSE Observed(pairs, n - 1, vid, f, null, old)

\* C18: a sync that observes a stored video again replaces each optional
\* field (title, description, channel_id, channel_title, duration_seconds,
\* thumbnail_url, published_at) by the newly observed value when that value
\* is non-null and keeps the stored value when it is null.
C18_PartialFieldMerge ==
    [][Len(run'.inputs) = Len(run.inputs) + 1 =>
        LET pairs == Last(run'.inputs).pairs
        IN \A r \in conn.videos :
             \E r2 \in conn'.videos :
                /\ r2.video_id = r.video_id
                /\ \A f \in VideoStrFields :
                      r2[f] = Observed(pairs, Len(pairs), r.video_id, f, NULL, r[f])
                /\ \A f \in VideoIntFields :
                      r2[f] = Observed(pairs, Len(pairs), r.video_id, f, NoValue, r[f])
      ]_vars

\* A video first observed with a title and no duration (by the API), then
\* with a duration and no title (by yt-dlp), holds both.
C18_Witness ==
    /\ run.inputs # <<>>
    /\ Last(run.inputs).pairs # <<>>
    /\ Last(Last(run.inputs).pairs).video.title = NULL
    /\ Last(Last(run.inputs).pairs).video.duration_seconds = 60
    /\ \E r \in conn.videos :
          /\ r.video_id = Last(Last(run.inputs).pairs).video.video_id
          /\ r.title = "video"
          /\ r.duration_seconds = 60
          /\ r.first_seen_at < r.last_updated_at

\* The pairs of an enumeration that are the last to carry their item_id.
LastPairs(pairs) ==
    {pairs[j] : j \in {k \in 1..Len(pairs) :
                         \A l \in (k + 1)..Len(pairs) :
                            pairs[l].item.item_id # pairs[k].item.item_id}}

\* C19: after a sync, the stored row of the playlist holds the observed
\* title, description, channel, visibility, member count and creation time,
\* and the stored row of every observed membership holds the observed
\* collection id, item id, position and added time, whether the row was
\* inserted or already existed.
C19_AuthoritativeOverwrite ==
    [][Len(run'.inputs) = Len(run.inputs) + 1 =>
        LET input == Last(run'.inputs)
        IN /\ \A r \in {x \in conn'.playlists :
                           x.playlist_id = input.playlist.playlist_id} :
                /\ r.title = input.playlist.title
                /\ r.description = input.playlist.description
                /\ r.channel_id = input.playlist.channel_id
                /\ r.privacy_status = input.playlist.privacy_status
                /\ r.item_count = input.playlist.item_count
                /\ r.published_at = input.playlist.published_at
           /\ \A pair \in LastPairs(input.pairs) :
                \A r \in {x \in conn'.playlist_items : x.item_id = pair.item.item_id} :
                    /\ r.playlist_id = pair.item.playlist_id
                    /\ r.video_id = pair.item.video_id
                    /\ r.position = pair.item.position
                    /\ r.added_at = pair.item.added_at
      ]_vars

\* The rows of the three tables with the name of their key and of their
\* last-observation column.
SeenRows(tabs) ==
    {[id |-> r.playlist_id, tab |-> "playlists",
      first |-> r.first_seen_at, last |-> r.last_seen_at] : r \in tabs.playlists}
    \cup {[id |-> r.video_id, tab |-> "videos",
           first |-> r.first_seen_at, last |-> r.last_updated_at] : r \in tabs.videos}
    \cup {[id |-> r.item_id, tab |-> "playlist_items",
           first |-> r.first_seen_at, last |-> r.last_seen_at] : r \in tabs.playlist_items}

\* C20: first_seen_at <= last_seen_at (last_updated_at for videos) for every
\* row of the connection and of the latest version; no step changes the
\* first_seen_at of a stored row; and a sync sets last_seen_at /
\* last_updated_at of the playlist, of every video and of every membership
\* it upserts to the time of the run, whether or not another field changed.
C20_ObservationTimestamps ==
    /\ [](\A r \in SeenRows(conn) : r.first <= r.last)
    /\ [](versions # <<>> => \A r \in SeenRows(TablesOf(Last(versions))) : r.first <= r.last)
    /\ [][\A r \in SeenRows(conn) : \A r2 \in SeenRows(conn') :
             (r2.tab = r.tab /\ r2.id = r.id) => r2.first = r.first]_vars
    /\ [][Len(run'.inputs) = Len(run.inputs) + 1 =>
            LET input == Last(run'.inputs)
            IN \A r2 \in SeenRows(conn') :
                 (\/ r2.tab = "playlists" /\ r2.id = input.playlist.playlist_id
                  \/ \E j \in 1..Len(input.pairs) :
                       \/ r2.tab = "videos" /\ r2.id = input.pairs[j].video.video_id
                       \/ r2.tab = "playlist_items" /\ r2.id = input.pairs[j].item.item_id)
                 => r2.last = clock]_vars

\* A membership stored by an earlier run was upserted again with nothing
\* changed but its last_seen_at, which is now later than its first_seen_at.
C20_Witness ==
    /\ run.inputs # <<>>
    /\ Last(run.inputs).pairs # <<>>
    /\ versions # <<>>
    /\ \E r \in conn.playlist_items : \E o \in Last(versions).playlist_items :
          /\ r.item_id = Last(Last(run.inputs).pairs).item.item_id
          /\ r.first_seen_at < r.last_seen_at
          /\ r.last_seen_at = clock
          /\ o # r
          /\ [o EXCEPT !.last_seen_at = clock] = r

\* Each table of `tabs` holds at most one row per identity.
UniqueIdentities(tabs) ==
    /\ \A r, o \in tabs.playlists : r.playlist_id = o.playlist_id => r = o
    /\ \A r, o \in tabs.videos : r.video_id = o.video_id => r = o
    /\ \A r, o \in tabs.playlist_items : r.item_id = o.item_id => r = o

\* C21: with backup runs executed one at a time, each of the tables
\* playlists, videos and playlist_items holds at most one row per identity, in
\* the connection and in every published version, also when an identity is
\* observed several times in one run or under several collections.
C21_IdentityUniqueness ==
    /\ UniqueIdentities(conn)
    /\ \A i \in 1..Len(versions) : UniqueIdentities(TablesOf(versions[i]))

\* A second run has committed in which the same membership was reported under
\* two collections, and a video by two memberships, all stored before.
C21_Witness ==
    /\ Published
    /\ Len(run.log) = 2
    /\ run.log[1].ids \cap run.log[2].ids # {}
    /\ Cardinality(run.log[2].ids) = 2
    /\ Cardinality(VersionN.playlist_items) = 2
    /\ Cardinality(VersionN1.playlist_items) = 2
    /\ Cardinality(VersionN1.videos) = 1

\* The timestamp the retention rule reads off an item dict: added_at when it
\* is known, first_seen_at otherwise, parsed when it is a string; None when
\* there is none.
Resolved(item) ==
    LET stamp == IF item.added_at # None THEN item.added_at ELSE item.first_seen_at
    IN IF stamp.kind \in {"naive", "aware"} THEN stamp ELSE fromisoformat(stamp)

\* The instant in UTC of a resolved timestamp on a machine utc_offset ahead.
Instant(stamp, utc_offset) ==
    IF stamp.kind = "naive" THEN stamp.t - utc_offset ELSE stamp.t

\* The k-th item of the call is in the list built so far.
Selected(call, k) ==
    \E j \in 1..Len(call.frame.old_items) : call.frame.old_items[j] = call.items[k]

\* C22: get_items_older_than(items, d) returns exactly the records whose
\* effective timestamp is strictly earlier than now - d days.
C22_RetentionBoundary ==
    older.pc = "returned" =>
        \A k \in 1..Len(older.items) :
            LET stamp == Resolved(older.items[k])
            IN stamp # None =>
                (Selected(older, k)
                    <=> Instant(stamp, older.utc_offset)
                            < OlderNow - older.days * TicksPerDay)

\* C23: get_items_older_than reads added_at when it is known and first_seen_at
\* otherwise; a record without a resolvable timestamp (both missing, or a
\* string that does not parse) is passed over: the locals stay as they are, no
\* error is raised and the loop goes on, so that the call that returns has
\* visited every record; a record with a timestamp is appended exactly when
\* that timestamp is before the cutoff it was compared with.
C23_EffectiveTimestamp ==
    /\ [][(older.pc = "loop" /\ older'.i = older.i + 1) =>
            LET stamp == Resolved(older.items[older.i])
            IN /\ stamp = None =>
                    /\ older'.frame = older.frame
                    /\ older'.pc = "loop"
               /\ (stamp # None /\ older'.pc = "loop") =>
                    /\ stamp.kind = older'.frame.cutoff.kind
                    /\ Selected(older', older.i) <=> stamp.t < older'.frame.cutoff.t
                    /\ Len(older'.frame.old_items) <= Len(older.frame.old_items) + 1]_vars
    /\ [](older.pc = "returned" =>
            /\ older.i = Len(older.items) + 1
            /\ \A k \in 1..Len(older.items) :
                   Resolved(older.items[k]) = None => ~Selected(older, k))

\* A call has returned that passed over a record without any timestamp and
\* one with an unparsable added_at, and then selected a record on its
\* first_seen_at.
C23_Witness ==
    /\ older.pc = "returned"
    /\ older.days = 0
    /\ Len(older.items) = 2
    /\ older.items[1].added_at = Unparsable
    /\ older.items[1].first_seen_at = Stamp("naive", 1)
    /\ older.items[2].added_at = None
    /\ older.items[2].first_seen_at = Stamp("naive", 1)
    /\ ~Selected(older, 1)
    /\ Selected(older, 2)

\* C24: for every list, whatever the mix and order of timestamps with and
\* without zone, get_items_older_than completes without error, and a record is
\* selected exactly when it is selected from the list that holds it alone.
C24_ZoneNormalization ==
    /\ older.pc # "raised"
    /\ older.pc = "returned" =>
          \A k \in 1..Len(older.items) :
              Selected(older, k)
                  <=> get_items_older_than(<<older.items[k]>>, older.days,
                          datetime_now(OlderNow, older.utc_offset)).old_items # <<>>

\* C25: a run of prune whose --older-than value parse_duration rejects ends
\* with the validation error without having opened or read the store.
C25_MalformedThresholdBeforeStore ==
    (prune.command = "prune" /\ prune.exit = "bad_parameter") => ~prune.opened

\* C27: prune_watch_later_items removes from the remote Watch Later only
\* entries of the selected list, at most min(len(selected), batch_size) of
\* them, and returns one element for each entry it removed.
C27_PruneOnlySelected ==
    prune.command = "prune" =>
        /\ \A k \in 1..Len(prune.removed) :
               \E j \in 1..Len(prune.selected) :
                   prune.selected[j].video_id = prune.removed[k].video_id
        /\ Len(prune.removed) <= Len(prune.selected)
        /\ Len(prune.removed) <= prune.args.batch_size
        /\ Len(prune.deleted_ids) = Len(prune.removed)

\* C28: a step of delete, empty or prune leaves the rows of the store as they
\* are and creates no version.
C28_RemoteDeletionsLeaveStore ==
    [][prune' # prune => (versions' = versions /\ conn' = conn)]_vars

\* The command line of the run passes the checks of prune.
ValidPrune(args) ==
    /\ args.playlist_id \in {"WL", "wl"}
    /\ ~(args.older_than.given /\ args.count.given)
    /\ ~(args.older_than.given /\ args.all_items)
    /\ ~(args.count.given /\ args.all_items)

NoOption(args) == ~args.older_than.given /\ ~args.count.given /\ ~args.all_items

\* C29: a run of prune gets to reading the store, selecting and deleting only
\* when the playlist id is WL in any case and at most one of --older-than,
\* --count and --all is given; otherwise it ends with an error at once, the
\* store unopened and nothing removed; with none of the three given it goes
\* on as the run with --older-than 90d does: same threshold, same selection.
C29_PruneSelectionRules ==
    /\ [](prune.command = "prune" =>
            /\ ValidPrune(prune.args) => prune.exit # "invalid"
            /\ ~ValidPrune(prune.args) =>
                  /\ prune.pc = "done"
                  /\ prune.exit = "invalid"
                  /\ ~prune.opened
                  /\ prune.removed = <<>>
            /\ (ValidPrune(prune.args) /\ NoOption(prune.args)) =>
                  prune.older_than = Given(<<"9", "0", "d">>))
    /\ [][(prune.pc = "select" /\ NoOption(prune.args)) =>
            /\ prune'.exit \in {"none", "no_match"}
            /\ prune'.selected =
                  get_items_older_than(prune.items, 90, Stamp("naive", clock)).old_items]_vars

\* A run of "ytm prune wl" without any of the three options has read the
\* stored Watch Later items, selected on the 90 day threshold and found
\* nothing that old.
C29_Witness ==
    /\ prune.command = "prune"
    /\ NoOption(prune.args)
    /\ prune.args.playlist_id = "wl"
    /\ prune.opened
    /\ prune.items # <<>>
    /\ prune.exit = "no_match"

\* C26: a diff with an argument that names no existing version of the store
\* reports the failure, produces none of the four added/removed sets, and
\* leaves the store as it is.
C26_DiffMissingVersion ==
    [][(/\ seen' # seen
        /\ seen'.at = "diff"
        /\ ~({seen'.version1, seen'.version2} \subseteq SnapshotIds(versions))) =>
            /\ seen'.changes = ChangesError
            /\ versions' = versions
            /\ conn' = conn]_vars

\* C30: applied to the stored memberships, mark_removed_items(P, S) at a later
\* moment sets removed_from_youtube_at, and nothing else, in exactly the rows
\* of collection P that are live and whose identity is not in S; rows of other
\* collections, rows in S and rows marked removed before stay as they are.
C30_FrameOfRemovalMarking ==
    \A P \in Collections, S \in SUBSET ItemIds :
        mark_removed_items(conn.playlist_items, P, S, clock + 1)
            = {IF /\ r.playlist_id = P
                  /\ r.removed_from_youtube_at = NoValue
                  /\ r.item_id \notin S
               THEN [r EXCEPT !.removed_from_youtube_at = clock + 1]
               ELSE r : r \in conn.playlist_items}

\* A sync has just marked a membership of its collection removed while the
\* other membership, which it enumerated, stays live.
C30_Witness ==
    /\ pc \in {"loop", "commit"}
    /\ run.log # <<>>
    /\ Last(run.log).marked
    /\ Cardinality(Last(run.log).ids) = 1
    /\ \E r, o \in conn.playlist_items :
          /\ r.playlist_id = Last(run.log).playlist_id
          /\ r.removed_from_youtube_at = clock
          /\ r.first_seen_at < clock
          /\ r.item_id \notin Last(run.log).ids
          /\ o.item_id \in Last(run.log).ids
          /\ o.removed_from_youtube_at = NoValue

\* The syncs of the run that saved a complete snapshot and ran
\* mark_removed_items without error.
CompleteSyncs == {i \in 1..Len(run.log) : run.log[i].marked /\ run.log[i].complete}

\* The live membership identities of collection `p` at the version the run
\* published.
LiveAtN1(p) ==
    ItemIdsOf(get_playlist_items(versions, conn, p, VersionN1.snapshot_id,
                                 NoValue, FALSE))

\* C31: after a committed run, for every collection synced from a complete
\* snapshot without error, the identities that get_playlist_items returns
\* for it with include_removed = False at the published version are exactly
\* the identities of that snapshot, whatever the store held before.
C31_LiveSetEqualsSnapshot ==
    Published =>
        \A i \in CompleteSyncs :
            LiveAtN1(run.log[i].playlist_id) = run.log[i].ids

\* C32: whatever the browser page does, timeouts and missing elements
\* repeated without end included, the loop of prune_watch_later_items that
\* has started eventually stops.
C32_DeletionLoopTerminates ==
    (prune.pc = "browser") ~> (prune.pc = "done")

\* The items of a --count run that the selection took, and those it left.
Taken == {prune.selected[j] : j \in 1..Len(prune.selected)}

Left == {prune.items[j] : j \in 1..Len(prune.items)} \ Taken

\* C33: for every integer N given as --count and every stored Watch Later
\* list, the selection holds exactly min(N, number of items) items, and no
\* item left out has a higher position than an item selected.
C33_CountSelection ==
    (/\ prune.command = "prune"
     /\ prune.args.count.given
     /\ ~prune.args.all_items
     /\ prune.exit # "invalid"
     /\ prune.pc \notin {"read", "select"}
     /\ prune.exit # "no_items")
        => /\ Len(prune.selected)
                = (IF prune.args.count.n < Len(prune.items)
                   THEN prune.args.count.n ELSE Len(prune.items))
           /\ \A s \in Taken, o \in Left : o.position <= s.position

\* One or more decimal digits followed by one of d, w, m in either case.
WellFormedDuration(text) ==
    /\ Len(text) >= 2
    /\ \A i \in 1..(Len(text) - 1) : text[i] \in Range(DigitChars)
    /\ Last(text) \in {"d", "w", "m", "D", "W", "M"}

\* The number a string of decimal digits denotes.
RECURSIVE Decimal(_)
Decimal(digits) ==
    IF digits = <<>> THEN 0
    ELSE 10 * Decimal(SubSeq(digits, 1, Len(digits) - 1))
         + (CHOOSE d \in 0..9 : DigitChars[d + 1] = Last(digits))

\* N, 7N or 30N for the unit d, w or m.
DaysOf(text) ==
    Decimal(SubSeq(text, 1, Len(text) - 1))
        * (IF Last(text) \in {"d", "D"} THEN 1
           ELSE IF Last(text) \in {"w", "W"} THEN 7 ELSE 30)

\* C34: a run of prune that gets to parse_duration with the --older-than
\* string goes on with N, 7N or 30N days when the string is one or more
\* decimal digits followed by d, w or m in either case, and ends with the
\* validation error, no number returned, for every other string.
C34_DurationParsing ==
    (/\ prune.command = "prune"
     /\ prune.pc \in {"confirm", "done", "browser", "retry"}
     /\ prune.exit \notin {"invalid", "no_items"}
     /\ ~prune.args.all_items
     /\ ~prune.args.count.given)
        => IF WellFormedDuration(prune.older_than.text)
           THEN prune.exit # "bad_parameter"
                /\ prune.days = DaysOf(prune.older_than.text)
           ELSE prune.exit = "bad_parameter" /\ prune.days = NoValue

\* The requests of kind `op` that the command has sent.
CallsOf(op) == {i \in 1..Len(prune.calls) : prune.calls[i].op = op}

\* C35: a run of restore that ends as a dry run or with the confirmation
\* declined has sent no request that changes the remote account: it has
\* created no playlist and inserted no item.
C35_NoRemoteEffectWithoutConfirmation ==
    (prune.command = "restore" /\ prune.exit \in {"dry_run", "cancelled"})
        => prune.calls = <<>>

\* C39: given the Watch Later id in any spelling that prune accepts, delete
\* sends no playlist deletion, empty sends no item deletion, and restore with
\* that id as target sends no item insertion.
C39_WatchLaterGuards ==
    /\ (prune.command = "delete" /\ upper(prune.args.playlist_id) = "WL")
          => CallsOf("playlists.delete") = {}
    /\ (prune.command = "empty" /\ upper(prune.args.playlist_id) = "WL")
          => CallsOf("playlistItems.delete") = {}
    /\ (/\ prune.command = "restore"
        /\ prune.args.to_playlist # NULL
        /\ upper(prune.args.to_playlist) = "WL")
          => CallsOf("playlistItems.insert") = {}

\* The optional fields of row r that hold a value.
Known(r) ==
    {f \in VideoStrFields : r[f] # NULL} \cup {f \in VideoIntFields : r[f] # NoValue}

\* The positions of the observations of video `vid` in an enumeration.
ObservationsOf(pairs, vid) == {i \in 1..Len(pairs) : pairs[i].video.video_id = vid}

\* C36: the upsert_video calls of a sync leave every optional field that held
\* a value with a value, and set is_available of every video they observe to
\* the value of its most recent observation; and from one published version
\* to a later one no optional field of a stored video goes back to null.
C36_KnowledgeNeverShrinks ==
    /\ [][Len(run'.inputs) = Len(run.inputs) + 1 =>
            LET pairs == Last(run'.inputs).pairs
            IN /\ \A r \in conn.videos :
                     \E r2 \in conn'.videos :
                        r2.video_id = r.video_id /\ Known(r) \subseteq Known(r2)
               /\ \A r2 \in conn'.videos :
                     LET seen_at == ObservationsOf(pairs, r2.video_id)
                     IN seen_at # {} =>
                          r2.is_available
                            = pairs[CHOOSE i \in seen_at : \A j \in seen_at : j <= i]
                                .video.is_available
       ]_vars
    /\ [](\A i, j \in 1..Len(versions) :
            i < j =>
              \A r \in versions[i].videos :
                 \E r2 \in versions[j].videos :
                    r2.video_id = r.video_id /\ Known(r) \subseteq Known(r2))

\* A video stored as unavailable under the title "Private video" was observed
\* again as available and without a title: the row keeps the title and is
\* available.
C36_Witness ==
    /\ run.base # <<>>
    /\ run.inputs # <<>>
    /\ Last(run.inputs).pairs # <<>>
    /\ LET video == Last(Last(run.inputs).pairs).video
       IN /\ video.title = NULL
          /\ video.is_available = SqlBool(TRUE)
          /\ \E r \in conn.videos :
                /\ r.video_id = video.video_id
                /\ r.title = "Private video"
                /\ r.is_available = SqlBool(TRUE)
                /\ \E old \in VersionN.videos :
                      /\ old.video_id = r.video_id
                      /\ old.is_available = SqlBool(FALSE)

JoinedAsOf(rows, snap, p, inc) ==
    /\ {r.item_id : r \in rows}
         = {pi.item_id : pi \in {x \in snap.playlist_items :
                                   /\ x.playlist_id = p
                                   /\ (inc \/ x.removed_from_youtube_at = NoValue)}}
    /\ \A r \in rows :
         \E pi \in snap.playlist_items :
            /\ pi.item_id = r.item_id
            /\ pi.position = r.position
            /\ pi.last_seen_at = r.last_seen_at
            /\ pi.removed_from_youtube_at = r.removed_from_youtube_at
            /\ \A v \in snap.videos :
                  v.video_id = pi.video_id =>
                     /\ r.title = v.title
                     /\ r.channel_title = v.channel_title
                     /\ r.duration_seconds = v.duration_seconds
                     /\ r.is_available = v.is_available

\* C38: get_playlist_items at version v returns the memberships of version v
\* with the item attributes of version v, at time t those of the last version
\* committed at or before t, never attributes of a later version; and with
\* both at_version and at_time given it returns what at_version alone gives.
C38_JoinedReadsAtOnePoint ==
    \A p \in Collections, inc \in BOOLEAN :
        /\ \A snap \in TableVersions :
              LET read == get_playlist_items(versions, conn, p, snap.snapshot_id,
                                             NoValue, inc)
              IN read.ok /\ JoinedAsOf(read.rows, snap, p, inc)
        /\ \A t \in 0..clock :
              ((\E snap \in Range(versions) : snap.snapshot_time <= t)
               /\ LastAtOrBefore(t).ntables = 3) =>
                 LET read == get_playlist_items(versions, conn, p, NoValue, t, inc)
                 IN read.ok /\ JoinedAsOf(read.rows, LastAtOrBefore(t), p, inc)
        /\ \A v \in 0..(Len(versions) + 1), t \in 0..clock :
              get_playlist_items(versions, conn, p, v, t, inc)
                = get_playlist_items(versions, conn, p, v, NoValue, inc)

\* Two versions hold the same membership with different titles of its video,
\* and the read at the older version, also with a later at_time beside it,
\* returns the older title.
C38_Witness ==
    \E old, new \in TableVersions :
        /\ old.snapshot_id < new.snapshot_id
        /\ old.snapshot_time < new.snapshot_time
        /\ \E r \in get_playlist_items(versions, conn, "PL1", old.snapshot_id,
                                       new.snapshot_time, FALSE).rows :
              \E r2 \in get_playlist_items(versions, conn, "PL1", new.snapshot_id,
                                          NoValue, FALSE).rows :
                 /\ r.item_id = r2.item_id
                 /\ r.title = "video"
                 /\ r2.title = "Private video"
                 /\ r.is_available # r2.is_available

====
